---- MODULE Spec2Model ----
(***************************************************************************)
(* A model of the sync engine of stringplay-core (services/sync.ts) and of *)
(* the storage it shares with the API service (services/api.ts).           *)
(*                                                                         *)
(* One tenant (troupe) is modelled: every collection is filtered by        *)
(* troupeId in the code and no operation reads another troupe's documents. *)
(***************************************************************************)
EXTENDS Integers, Sequences, FiniteSets, TLC

(***************************************************************************)
(* Bounds of the model.                                                    *)
(***************************************************************************)
NumFolders == 3      \* Drive folder ids 1..NumFolders
NumFiles == 2        \* Drive file ids 1..NumFiles
MaxDeclared == 4     \* folder declarations over all event types (seeding)
MaxDeclaredExplore == 2  \* folder declarations when listings are explored
NumEventTypes == 2   \* event types of the troupe
MaxQuota == 1        \* largest counter in a limits snapshot
NumMembers == 2      \* Member IDs 1..NumMembers that answer forms
NumStoredMembers == 1  \* Member IDs 1..NumStoredMembers that may be stored
MaxStoredPages == 2  \* stored buckets of a member when responses are merged
MaxRecords == 65     \* attendance records of a member when buckets are paged
MaxStoredRecords == 95  \* records of that member at the previous sync
StoredStride == 19   \* the previous sync's record counts are its multiples
NumProcs == 2        \* concurrent sync() calls
MaxOps == 3            \* modifyOperationsLeft of the troupes the event type calls start from
MaxTypesLeft == 3      \* largest eventTypesLeft they start from
MaxBatch == 2          \* largest request list given to createEventTypes
NumApiCalls == 2       \* API calls in flight at once
MaxSyncsLeft == 2      \* largest manualSyncsLeft of a troupe
MaxLogEvents == 2      \* events of the troupe whose log is refreshed
MaxDate == 2           \* start dates 1..MaxDate, in days
MaxTotal == 1          \* "Total" points 0..MaxTotal
MaxGetEvents == 4      \* stored events, of any troupe, that getEvents reads over
MaxGetMembers == 3     \* stored members, of any troupe, that getAudience reads over

(***************************************************************************)
(* Program constants.                                                      *)
(***************************************************************************)
MAX_PAGE_SIZE == 30
MAX_EVENT_TYPES == 10

VARIABLES
    \* ---- persisted collections (BaseDbService) ----
    syncLock,            \* troupe.syncLock
    eventTypes,          \* troupe.eventTypes
    eventColl,           \* events collection
    audienceColl,        \* audience collection
    eventsAttendedColl,  \* eventsAttended collection (attendance buckets)
    limits,              \* the quota ledger (LimitService)
    dashboard,           \* the troupe's dashboard document
    \* ---- one SyncTroupe instance per sync() call ----
    sync,                \* the instance's fields and its methods' locals
    dpc,                 \* the call's position in sync() and its methods
    seedIdx,             \* position in the event type initialization loop
    \* ---- Google Drive and the forms and sheets, as far as they are held fixed ----
    external,            \* the answers already given, when they must not change
    \* ---- the API service (ApiService) ----
    calls,               \* the API calls in flight: what each has read and is about to write
    syncQueue,           \* the number of sync requests in the sync queue
    \* ---- the log sheet ----
    skipLogPublish,      \* the skipLogPublish argument of each sync() call
    updateLog            \* the lists each sync() call has handed to logService.updateLog

storageVars == <<syncLock, eventTypes, eventColl, audienceColl, eventsAttendedColl, limits, dashboard>>
logVars == <<skipLogPublish, updateLog>>
discVars == <<sync, dpc, seedIdx, logVars>>
apiVars == <<calls, syncQueue>>
vars == <<syncLock, eventTypes, eventColl, audienceColl, eventsAttendedColl, limits,
          dashboard, sync, dpc, seedIdx, external, calls, syncQueue,
          skipLogPublish, updateLog>>

(***************************************************************************)
(* Generic helpers.                                                        *)
(***************************************************************************)
Last(s) == s[Len(s)]
Front(s) == SubSeq(s, 1, Len(s) - 1)
Range(s) == { s[i] : i \in 1..Len(s) }

RECURSIVE SeqsUpTo(_, _)
\* all sequences over S of length at most n
SeqsUpTo(S, n) ==
    IF n = 0 THEN { <<>> }
    ELSE LET shorter == SeqsUpTo(S, n - 1)
         IN shorter \cup { Append(s, x) : s \in { t \in shorter : Len(t) = n - 1 }, x \in S }

\* the elements of a set of numbers in ascending order (for...in over integer keys)
RECURSIVE SortedSeq(_)
SortedSeq(S) ==
    IF S = {} THEN <<>>
    ELSE LET m == CHOOSE x \in S : \A y \in S : x <= y
         IN <<m>> \o SortedSeq(S \ {m})

NoDup(s) == \A i, j \in 1..Len(s) : i # j => s[i] # s[j]
Max(a, b) == IF a > b THEN a ELSE b
Min(a, b) == IF a < b THEN a ELSE b

(***************************************************************************)
(* Google Drive, as the engine sees it.                                    *)
(***************************************************************************)
Folders == 1..NumFolders
Files == 1..NumFiles
DRIVE_FOLDER_MIME == "application/vnd.google-apps.folder"
FORMS_MIME == "application/vnd.google-apps.form"
SHEETS_MIME == "application/vnd.google-apps.spreadsheet"
EVENT_DATA_SOURCES == <<"Google Forms", "Google Sheets">>
EVENT_DATA_SOURCE_MIME_TYPES == <<FORMS_MIME, SHEETS_MIME>>

\* indexOf on EVENT_DATA_SOURCE_MIME_TYPES, 0 standing for -1
MimeIndex(mime) ==
    IF \E i \in 1..Len(EVENT_DATA_SOURCE_MIME_TYPES) : EVENT_DATA_SOURCE_MIME_TYPES[i] = mime
    THEN CHOOSE i \in 1..Len(EVENT_DATA_SOURCE_MIME_TYPES) : EVENT_DATA_SOURCE_MIME_TYPES[i] = mime
    ELSE 0

\* a source URL is the source kind's URL template filled with the file id
getDataSourceUrl(source, id) == <<source, id>>
\* a declared folder is stored as a URL; discovery extracts its id
FolderUrl(f) == <<"Google Drive Folder", f>>
getDataSourceId(url) == url[2]

\* the mime type Drive reports for file k: odd ids are forms, even ids sheets
FileMime(k) == IF k % 2 = 1 THEN FORMS_MIME ELSE SHEETS_MIME
\* file.createdTime, in days: the files are listed latest first
createdTime(k) == NumFiles + 1 - k
FileEntry(k) == [id |-> k, mimeType |-> FileMime(k)]
FolderEntry(f) == [id |-> f, mimeType |-> DRIVE_FOLDER_MIME]
ListFails == [ok |-> FALSE, files |-> <<>>]      \* the call is rejected
Listed(files) == [ok |-> TRUE, files |-> files]  \* response.data.files

NoType == 0          \* an unset eventTypeId / no entry in folderToEventTypeMap

(***************************************************************************)
(* SyncTroupe: the instance after construction and after sync() has read   *)
(* the troupe and its limits.  eventMap and the discovery locals are kept  *)
(* in the same record.                                                     *)
(***************************************************************************)
ZeroIncrement == [eventsLeft |-> 0, sourceFolderUrisLeft |-> 0, membersLeft |-> 0]

\* eventMap after "Initialize existing events": one entry per stored sourceUri
InitialEventMap(events) ==
    [u \in { e.sourceUri : e \in events } |->
        [event |-> CHOOSE e \in events : e.sourceUri = u, fromColl |-> TRUE]]

NewSyncTroupe(types, events, currentLimits, oid) ==
    [ eventTypes           |-> types,
      currentLimits        |-> currentLimits,
      eventMap             |-> InitialEventMap(events),
      incrementLimits      |-> ZeroIncrement,
      folderToEventTypeMap |-> [f \in Folders |-> NoType],
      totalFiles           |-> [i \in 1..Len(types) |-> 0],
      foldersToExplore     |-> <<>>,
      discoveredFolders    |-> <<>>,
      attendeeMap          |-> << >>,
      pendingDelegates     |-> {},
      plan                 |-> << >>,
      nextOid              |-> oid,
      raised               |-> FALSE,
      failedIn             |-> "" ]

\* the instance after construction, before sync() is called
Unstarted == NewSyncTroupe(<<>>, {}, ZeroIncrement, 0)
\* the instance once a method has thrown
Failed(st, method) == [st EXCEPT !.failedIn = method]

(***************************************************************************)
(* performEventTypeTieBreaker: event types are named by their index in     *)
(* troupe.eventTypes (one discoveryEventType object per index).            *)
(***************************************************************************)
TieBreakerChallengerOnTie(map, totalFiles, folderId, currentEventType) ==
    LET existingEventType == map[folderId]
    IN  IF existingEventType = NoType THEN currentEventType
        ELSE IF currentEventType = NoType THEN currentEventType
        ELSE IF totalFiles[existingEventType] <= totalFiles[currentEventType]
             THEN existingEventType
             ELSE currentEventType

performEventTypeTieBreaker(map, totalFiles, folderId, currentEventType) ==
    LET existingEventType == map[folderId]
    IN  IF existingEventType = NoType THEN currentEventType
        \* undefined.totalFiles of a missing challenger is never read: the
        \* only caller that can pass one passes map[folderId] itself
        ELSE IF currentEventType = NoType THEN currentEventType
        ELSE IF totalFiles[existingEventType] < totalFiles[currentEventType]
             THEN existingEventType
             ELSE currentEventType

(***************************************************************************)
(* Event type initialization: one claim of a declared folder.              *)
(***************************************************************************)
\* the (event type index, folder id) pairs in the order the two loops visit them
RECURSIVE SeedPairsFrom(_, _)
SeedPairsFrom(types, i) ==
    IF i > Len(types) THEN <<>>
    ELSE [j \in 1..Len(types[i].sourceFolderUris) |->
             [et |-> i, folderId |-> getDataSourceId(types[i].sourceFolderUris[j])]]
         \o SeedPairsFrom(types, i + 1)
SeedPairs(types) == SeedPairsFrom(types, 1)

SeedClaim(st, folderId, et) ==
    LET winningEventType ==
            performEventTypeTieBreaker(st.folderToEventTypeMap, st.totalFiles, folderId, et)
        owner == st.folderToEventTypeMap[folderId]
    IN  IF winningEventType # owner
        THEN LET dec == IF owner # NoType
                        THEN [st.totalFiles EXCEPT ![owner] = @ - 1]
                        ELSE st.totalFiles
             IN [st EXCEPT !.totalFiles = [dec EXCEPT ![winningEventType] = @ + 1],
                           !.folderToEventTypeMap[folderId] = winningEventType,
                           !.foldersToExplore = Append(@, folderId)]
        ELSE st

(***************************************************************************)
(* Event discovery: one file of a folder's listing.                        *)
(***************************************************************************)
\* the quota test that guards the creation of a new event
EventQuotaExhausted(st) ==
    st.currentLimits.eventsLeft = st.incrementLimits.eventsLeft

FolderQuotaExhausted(st) ==
    st.currentLimits.sourceFolderUrisLeft = st.incrementLimits.sourceFolderUrisLeft

\* a child folder: the tie breaker is run on the folder being listed
ProcessChildFolder(st, folderId, currentDiscoveryEventType) ==
    LET winningEventType ==
            performEventTypeTieBreaker(st.folderToEventTypeMap, st.totalFiles,
                                       folderId, currentDiscoveryEventType)
        owner == st.folderToEventTypeMap[folderId]
    IN  IF winningEventType # owner
        THEN IF owner = NoType /\ FolderQuotaExhausted(st)
             THEN st
             ELSE LET dec == IF owner # NoType
                             THEN [st.totalFiles EXCEPT ![owner] = @ - 1]
                             ELSE st.totalFiles
                      inc == IF owner # NoType
                             THEN st.incrementLimits
                             ELSE [st.incrementLimits EXCEPT !.sourceFolderUrisLeft = @ - 1]
                  IN [st EXCEPT !.totalFiles = [dec EXCEPT ![winningEventType] = @ + 1],
                                !.incrementLimits = inc,
                                !.folderToEventTypeMap[folderId] = winningEventType,
                                !.foldersToExplore = Append(@, folderId)]
        ELSE st

\* the test that guards the backfill of a stored event's linkage
LinkageAlways(event) == TRUE
LinkageMissing(event) == event.eventTypeId = NoType

\* a file of a recognized source kind
ProcessSourceFile(st, file, currentDiscoveryEventType) ==
    LET source == EVENT_DATA_SOURCES[MimeIndex(file.mimeType)]
        sourceUri == getDataSourceUrl(source, file.id)
    IN  IF currentDiscoveryEventType = NoType
        THEN [st EXCEPT !.raised = TRUE]      \* destructuring undefined throws
        ELSE LET currentEventType == st.eventTypes[currentDiscoveryEventType]
             IN IF sourceUri \in DOMAIN st.eventMap
                THEN IF LinkageMissing(st.eventMap[sourceUri].event)
                     THEN [st EXCEPT !.eventMap[sourceUri].event =
                              [@ EXCEPT !.eventTypeId = currentEventType.id,
                                        !.eventTypeTitle = currentEventType.title,
                                        !.value = currentEventType.value]]
                     ELSE st
                ELSE IF EventQuotaExhausted(st)
                     THEN st
                     ELSE LET event == [ id             |-> st.nextOid,
                                         source         |-> source,
                                         sourceUri      |-> sourceUri,
                                         startDate      |-> createdTime(file.id),
                                         eventTypeId    |-> currentEventType.id,
                                         eventTypeTitle |-> currentEventType.title,
                                         value          |-> currentEventType.value ]
                          IN [st EXCEPT
                                !.eventMap = @ @@ (sourceUri :> [event |-> event, fromColl |-> FALSE]),
                                !.nextOid = @ + 1,
                                !.incrementLimits.eventsLeft = @ - 1]

ProcessFile(st, folderId, file, currentDiscoveryEventType) ==
    IF file.mimeType = DRIVE_FOLDER_MIME
    THEN ProcessChildFolder(st, folderId, currentDiscoveryEventType)
    ELSE IF MimeIndex(file.mimeType) # 0
    THEN ProcessSourceFile(st, file, currentDiscoveryEventType)
    ELSE st

RECURSIVE ProcessFiles(_, _, _, _, _)
ProcessFiles(st, folderId, files, currentDiscoveryEventType, k) ==
    IF k > Len(files) \/ st.raised THEN st
    ELSE ProcessFiles(ProcessFile(st, folderId, files[k], currentDiscoveryEventType),
                      folderId, files, currentDiscoveryEventType, k + 1)

(***************************************************************************)
(* Event discovery: one iteration of the worklist loop.  `listing` is what *)
(* drive.files.list answers for the popped folder: ListFails or Listed of a *)
(* sequence of entries; it is consulted only when the folder is not yet discovered. *)
(***************************************************************************)
NeedsListing(st) ==
    /\ st.foldersToExplore # <<>>
    /\ Last(st.foldersToExplore) \notin Range(st.discoveredFolders)

ExploreFolder(st, listing) ==
    LET folderId == Last(st.foldersToExplore)
        popped == [st EXCEPT !.foldersToExplore = Front(@)]
    IN  IF folderId \in Range(st.discoveredFolders) THEN popped
        ELSE IF ~listing.ok
        THEN IF st.folderToEventTypeMap[folderId] = NoType
             THEN [popped EXCEPT !.discoveredFolders = Append(@, folderId),
                                 !.raised = TRUE]
             \* the owner's filtered sourceFolderUris copy is never read again
             ELSE [popped EXCEPT !.folderToEventTypeMap[folderId] = NoType]
        ELSE ProcessFiles([popped EXCEPT !.discoveredFolders = Append(@, folderId)],
                          folderId, listing.files, st.folderToEventTypeMap[folderId], 1)

(***************************************************************************)
(* The troupe's member schema.  A property type ending in "!" is required. *)
(* Property values are naturals; NoValue is the falsy value (unset, null,  *)
(* the empty string).                                                      *)
(***************************************************************************)
NoValue == 0
PropertyType(base, required) == [base |-> base, required |-> required]
memberPropertyTypes ==
    [ p \in {"Member ID", "First Name", "Middle Name"} |->
        IF p = "Middle Name" THEN PropertyType("string", FALSE)
                             ELSE PropertyType("string", TRUE) ]
PropNames == DOMAIN memberPropertyTypes
pointTypes == {"Total"}
EndsWithBang(type) == type.required

Ids(coll) == { d.id : d \in coll }

(***************************************************************************)
(* discoverAndRefreshAudience: initialization of the accumulator from the  *)
(* stored members.                                                         *)
(***************************************************************************)
\* the stored buckets of a member, sorted by page
RECURSIVE SortByPage(_)
SortByPage(docs) ==
    IF docs = {} THEN <<>>
    ELSE LET d == CHOOSE x \in docs : \A y \in docs : x.page <= y.page
         IN <<d>> \o SortByPage(docs \ {d})

ResetProperty(member, prop) ==
    IF member.properties[prop].override
    THEN member.properties[prop]
    ELSE [value |-> member.properties[prop].value, override |-> FALSE]

ResetMember(member) ==
    [member EXCEPT !.points = [pt \in pointTypes |-> 0],
                   !.properties = [prop \in PropNames |-> ResetProperty(member, prop)]]

MemberKey(member) == member.properties["Member ID"].value

InitialAttendeeMap(members, buckets) ==
    [ key \in { MemberKey(m) : m \in members } |->
        LET member == CHOOSE m \in members : MemberKey(m) = key
        IN [ member             |-> ResetMember(member),
             eventsAttended     |-> <<>>,
             eventsAttendedDocs |-> SortByPage({ b \in buckets : b.memberId = member.id }),
             delete             |-> FALSE,
             fromColl           |-> TRUE ] ]

(***************************************************************************)
(* A Discovery Delegate (GoogleFormsEventDataService and                   *)
(* GoogleSheetsEventDataService): merges the responses of one event into   *)
(* the accumulator.  A response names a member by Member ID and may carry  *)
(* a First Name.                                                           *)
(***************************************************************************)
MemberQuotaExhausted(st) ==
    st.currentLimits.membersLeft + st.incrementLimits.membersLeft <= 0

NewMember(oid, key) ==
    [ id         |-> oid,
      properties |-> [prop \in PropNames |->
                        [value |-> IF prop = "Member ID" THEN key ELSE NoValue,
                         override |-> FALSE]],
      points     |-> [pt \in pointTypes |-> 0] ]

AttendanceRecord(event) ==
    [eventId |-> event.id, typeId |-> event.eventTypeId, value |-> event.value]

MergeResponse(st, event, response) ==
    LET key == response.memberId
        known == key \in DOMAIN st.attendeeMap
    IN  IF ~known /\ MemberQuotaExhausted(st) THEN st
        ELSE LET withMember ==
                    IF known THEN st
                    ELSE [st EXCEPT
                            !.attendeeMap = @ @@ (key :>
                                [ member |-> NewMember(st.nextOid, key),
                                  eventsAttended |-> <<>>,
                                  eventsAttendedDocs |-> <<>>,
                                  delete |-> FALSE,
                                  fromColl |-> FALSE ]),
                            !.nextOid = @ + 1,
                            !.incrementLimits.membersLeft = @ - 1]
                 old == withMember.attendeeMap[key]
                 name == old.member.properties["First Name"]
                 newName == IF ~name.override /\ response.firstName # NoValue
                            THEN [value |-> response.firstName, override |-> FALSE]
                            ELSE name
             IN [withMember EXCEPT
                    !.attendeeMap[key].eventsAttended = Append(@, AttendanceRecord(event)),
                    !.attendeeMap[key].member.points["Total"] = @ + event.value,
                    !.attendeeMap[key].member.properties["First Name"] = newName]

RECURSIVE MergeResponses(_, _, _, _)
MergeResponses(st, event, responses, k) ==
    IF k > Len(responses) THEN st
    ELSE MergeResponses(MergeResponse(st, event, responses[k]), event, responses, k + 1)

(***************************************************************************)
(* discoverAndRefreshAudience: marking the members that lack a required    *)
(* property.                                                               *)
(***************************************************************************)
requiredProperties == { prop \in PropNames : EndsWithBang(memberPropertyTypes[prop]) }

MarkedNever(memberData) == memberData.delete

MarkedForDeletion(memberData) ==
    \/ memberData.delete
    \/ \E prop \in requiredProperties : memberData.member.properties[prop].value = NoValue

MarkMembers(st) ==
    [st EXCEPT !.attendeeMap =
        [key \in DOMAIN st.attendeeMap |->
            [st.attendeeMap[key] EXCEPT !.delete = MarkedForDeletion(st.attendeeMap[key])]]]

(***************************************************************************)
(* persistSync: the lists of writes.                                       *)
(***************************************************************************)
\* the events object filled for one page: eventsAttended[startIndex..endIndex-1]
PageEvents(eventsAttended, startIndex, endIndex) ==
    [ eventId \in { eventsAttended[i + 1].eventId : i \in startIndex..(endIndex - 1) } |->
        LET i == CHOOSE j \in startIndex..(endIndex - 1) :
                    /\ eventsAttended[j + 1].eventId = eventId
                    /\ \A l \in startIndex..(endIndex - 1) :
                          eventsAttended[l + 1].eventId = eventId => l <= j
        IN [typeId |-> eventsAttended[i + 1].typeId, value |-> eventsAttended[i + 1].value] ]

\* the bucket pushed for one page: the stored bucket at that index when there
\* is one (its events are left as stored), a new bucket holding `events` if not
PageDoc(memberData, page, events, oid) ==
    IF page + 1 <= Len(memberData.eventsAttendedDocs)
    THEN memberData.eventsAttendedDocs[page + 1]
    ELSE [id |-> oid, memberId |-> memberData.member.id, page |-> page, events |-> events]

\* the while loop over the pages of one member; out = [docs, nextOid, page]
RECURSIVE PageLoop(_, _, _)
PageLoop(memberData, docsProcessed, out) ==
    IF docsProcessed >= Len(memberData.eventsAttended) THEN out
    ELSE LET startIndex == out.page * MAX_PAGE_SIZE
             endIndex == Min(startIndex + MAX_PAGE_SIZE, Len(memberData.eventsAttended))
             events == PageEvents(memberData.eventsAttended, startIndex, endIndex)
             fresh == out.page + 1 > Len(memberData.eventsAttendedDocs)
             doc == PageDoc(memberData, out.page, events, out.nextOid)
         IN PageLoop(memberData, docsProcessed + (endIndex - startIndex),
                     [ docs    |-> out.docs \cup {doc},
                       nextOid |-> IF fresh THEN out.nextOid + 1 ELSE out.nextOid,
                       page    |-> out.page + 1 ])

DocIdsFrom(docs, page) == { docs[i].id : i \in (page + 1)..Len(docs) }

EmptyPlan(oid) ==
    [ updateEvents |-> {}, updateAudience |-> {}, membersToDelete |-> {},
      updateEventsAttended |-> {}, eventsAttendedToDelete |-> {},
      totalMembers |-> 0, totalEvents |-> 0, nextOid |-> oid, raised |-> FALSE,
      dashboardUpdate |-> << >> ]

\* one iteration of the loop over attendeeMap
PlanMember(plan, memberData) ==
    IF memberData.delete /\ memberData.fromColl
    THEN [plan EXCEPT
            !.membersToDelete = @ \cup {memberData.member.id},
            !.eventsAttendedToDelete = @ \cup DocIdsFrom(memberData.eventsAttendedDocs, 0)]
    ELSE LET paged == PageLoop(memberData, 0,
                               [docs |-> {}, nextOid |-> plan.nextOid, page |-> 0])
         IN [plan EXCEPT
                !.updateAudience = @ \cup {memberData.member},
                !.totalMembers = @ + 1,
                !.updateEventsAttended = @ \cup paged.docs,
                !.nextOid = paged.nextOid,
                !.eventsAttendedToDelete =
                    @ \cup DocIdsFrom(memberData.eventsAttendedDocs, paged.page)]

RECURSIVE PlanMembers(_, _, _, _)
PlanMembers(plan, attendeeMap, keys, k) ==
    IF k > Len(keys) THEN plan
    ELSE PlanMembers(PlanMember(plan, attendeeMap[keys[k]]), attendeeMap, keys, k + 1)

\* the dashboard statistics are indexed by the troupe's event types: an
\* eventTypeId that is none of theirs makes the update throw
KnownType(st, typeId) ==
    typeId = NoType \/ \E i \in 1..Len(st.eventTypes) : st.eventTypes[i].id = typeId

PlanRaises(st) ==
    \/ \E u \in DOMAIN st.eventMap : ~KnownType(st, st.eventMap[u].event.eventTypeId)
    \/ \E key \in DOMAIN st.attendeeMap :
          /\ ~(st.attendeeMap[key].delete /\ st.attendeeMap[key].fromColl)
          /\ \E i \in 1..Len(st.attendeeMap[key].eventsAttended) :
                ~KnownType(st, st.attendeeMap[key].eventsAttended[i].typeId)

(***************************************************************************)
(* persistSync: the dashboard statistics.  A JavaScript number that may be *)
(* undefined or NaN is a record; a share is the fraction num / den.        *)
(***************************************************************************)
JsUndefined == [kind |-> "undefined", n |-> 0]
JsNaN == [kind |-> "NaN", n |-> 0]
\* x += 1
JsPlusOne(x) == IF x.kind = "number" THEN [x EXCEPT !.n = @ + 1] ELSE JsNaN
\* x > 0
JsPositive(x) == x.kind = "number" /\ x.n > 0

\* x += 1, `times` times over: after the first, a number stays a number and
\* NaN stays NaN
JsPlusOnes(x, times) ==
    IF times = 0 THEN x
    ELSE LET first == JsPlusOne(x)
         IN IF first.kind = "number" THEN [first EXCEPT !.n = @ + (times - 1)] ELSE first

Truncated(a, b) == a \div b

\* Math.round(a / b) for naturals a and b > 0: halves go up
Round(a, b) == (2 * a + b) \div (2 * b)

Fraction(num, den) == [num |-> num, den |-> den]
ZeroShare == Fraction(0, 1)

TypeIdsOf(types) == { types[i].id : i \in 1..Len(types) }

\* the number of events of the accumulator linked to event type t
EventsOfType(st, t) ==
    Cardinality({ u \in DOMAIN st.eventMap : st.eventMap[u].event.eventTypeId = t })

\* the number of attendance records paged for the members that are kept:
\* those of event type t, or all of them when t is NoType
RECURSIVE RecordsPaged(_, _, _, _)
RecordsPaged(st, keys, k, t) ==
    IF k > Len(keys) THEN 0
    ELSE LET memberData == st.attendeeMap[keys[k]]
             mine == IF memberData.delete /\ memberData.fromColl THEN 0
                     ELSE Cardinality({ i \in 1..Len(memberData.eventsAttended) :
                                          t = NoType \/ memberData.eventsAttended[i].typeId = t })
         IN mine + RecordsPaged(st, keys, k + 1, t)

DashboardUpdate(st, totalMembers) ==
    LET keys == SortedSeq(DOMAIN st.attendeeMap)
        typeIds == TypeIdsOf(st.eventTypes)
        \* dashboardUpdate.totalAttendees is absent from the initial object
        totalAttendees == JsPlusOnes(JsUndefined, RecordsPaged(st, keys, 1, NoType))
        totalEvents == Cardinality(DOMAIN st.eventMap)
        attendeesByType == [t \in typeIds |-> RecordsPaged(st, keys, 1, t)]
        eventsByType == [t \in typeIds |-> EventsOfType(st, t)]
    IN  [ totalMembers    |-> totalMembers,
          totalEvents     |-> totalEvents,
          totalEventTypes |-> Len(st.eventTypes),
          totalAttendees  |-> totalAttendees,
          avgAttendeesPerEvent      |-> 0,
          totalAttendeesByEventType |-> attendeesByType,
          totalEventsByEventType    |-> eventsByType,
          avgAttendeesByEventType   |->
              [t \in typeIds |-> IF eventsByType[t] > 0
                                 THEN Round(attendeesByType[t], eventsByType[t])
                                 ELSE 0],
          attendeePercentageByEventType |->
              [t \in typeIds |-> IF JsPositive(totalAttendees)
                                 THEN Fraction(attendeesByType[t], totalAttendees.n)
                                 ELSE ZeroShare],
          eventPercentageByEventType |->
              [t \in typeIds |-> IF totalEvents > 0
                                 THEN Fraction(eventsByType[t], totalEvents)
                                 ELSE ZeroShare] ]

\* the dashboard of a troupe before any sync
NewDashboard(types, members, events) ==
    [ totalMembers    |-> Cardinality(members),
      totalEvents     |-> Cardinality(events),
      totalEventTypes |-> Len(types),
      totalAttendees  |-> JsUndefined,
      avgAttendeesPerEvent          |-> 0,
      totalAttendeesByEventType     |-> [t \in TypeIdsOf(types) |-> 0],
      totalEventsByEventType        |-> [t \in TypeIdsOf(types) |-> 0],
      avgAttendeesByEventType       |-> [t \in TypeIdsOf(types) |-> 0],
      attendeePercentageByEventType |-> [t \in TypeIdsOf(types) |-> ZeroShare],
      eventPercentageByEventType    |-> [t \in TypeIdsOf(types) |-> ZeroShare] ]

PersistPlan(st) ==
    LET events == { st.eventMap[u].event : u \in DOMAIN st.eventMap }
        start == [EmptyPlan(st.nextOid) EXCEPT !.updateEvents = events,
                                              !.totalEvents = Cardinality(DOMAIN st.eventMap),
                                              !.raised = PlanRaises(st)]
        planned == PlanMembers(start, st.attendeeMap, SortedSeq(DOMAIN st.attendeeMap), 1)
    IN [planned EXCEPT !.dashboardUpdate = DashboardUpdate(st, planned.totalMembers)]

\* a write that leaves only the documents that differ from the stored ones
Rewritten(coll, docs) == docs \ coll
\* bulkWrite of { updateOne: { filter: { _id }, update: { $set: doc }, upsert: true } }
Upsert(coll, docs) == { d \in coll : d.id \notin Ids(docs) } \cup docs
\* deleteMany({ _id: { $in: ids } })
DeleteMany(coll, ids) == { d \in coll : d.id \notin ids }

\* LimitService.incrementTroupeLimits: refuses when a counter would go negative
WithinLimits(lim, delta) ==
    \A k \in DOMAIN delta : lim[k] + delta[k] >= 0
IncrementLimits(lim, delta) ==
    [k \in DOMAIN lim |-> IF k \in DOMAIN delta THEN lim[k] + delta[k] ELSE lim[k]]

(***************************************************************************)
(* What Drive may answer, and the troupes the model starts from.           *)
(***************************************************************************)
\* what a listing call may answer: at most one child folder, then any files
Listings ==
    { Listed(folderPart \o [i \in 1..Len(fileIds) |-> FileEntry(fileIds[i])]) :
        folderPart \in { <<>> } \cup { <<FolderEntry(c)>> : c \in Folders },
        fileIds \in { SortedSeq(S) : S \in SUBSET Files } }

EventTypeRecord(i, folderIds) ==
    [ id |-> i, title |-> <<"title", i>>, value |-> i,
      sourceFolderUris |-> [j \in 1..Len(folderIds) |-> FolderUrl(folderIds[j])] ]

RECURSIVE SumLen(_, _)
SumLen(f, n) == IF n = 0 THEN 0 ELSE Len(f[n]) + SumLen(f, n - 1)

\* every way NumEventTypes event types declare at most n folders in all
Declarations(n) ==
    LET lists == { s \in SeqsUpTo(Folders, n) : NoDup(s) }
    IN { [i \in 1..NumEventTypes |-> EventTypeRecord(i, f[i])] :
           f \in { g \in [1..NumEventTypes -> lists] : SumLen(g, NumEventTypes) <= n } }

\* a stored event of file k: created by hand with point value 5, or linked to type 1
StoredEvents(k) ==
    LET base == [ id |-> k, source |-> EVENT_DATA_SOURCES[MimeIndex(FileMime(k))],
                  sourceUri |-> getDataSourceUrl(EVENT_DATA_SOURCES[MimeIndex(FileMime(k))], k),
                  startDate |-> createdTime(k) ]
    IN { base @@ [eventTypeId |-> NoType, eventTypeTitle |-> <<"title", NoType>>, value |-> 5],
         base @@ [eventTypeId |-> 1, eventTypeTitle |-> <<"title", 1>>, value |-> 1] }

EventCollections ==
    { { pick[k] : k \in S } : S \in SUBSET Files, pick \in [Files -> UNION { StoredEvents(k) : k \in Files }] }

FullLimits(eventsLeft) ==
    [ eventsLeft |-> eventsLeft, sourceFolderUrisLeft |-> MaxQuota, membersLeft |-> MaxQuota ]

(***************************************************************************)
(* Documents the model starts from.  ObjectIds are naturals: stored        *)
(* documents have the low ones, each sync() call draws new ones from a     *)
(* range of its own.                                                       *)
(***************************************************************************)
Procs == 1..NumProcs
Mids == 1..NumMembers

MemberOid(key) == NumFiles + key
BucketOid(key, page) == NumFiles + NumMembers + (key - 1) * MaxStoredPages + page + 1
FirstOid == NumFiles + NumMembers + NumMembers * MaxStoredPages + 1
\* a call creates at most NumFiles events, NumMembers members and one bucket each
ProcOidBase(p) == FirstOid + (p - 1) * (NumFiles + 2 * NumMembers)

StoredMember(key, name, override) ==
    [ id         |-> MemberOid(key),
      properties |-> [prop \in PropNames |->
                        IF prop = "Member ID" THEN [value |-> key, override |-> FALSE]
                        ELSE IF prop = "First Name" THEN [value |-> name, override |-> override]
                        ELSE [value |-> NoValue, override |-> FALSE]],
      points     |-> [pt \in pointTypes |-> 3] ]

\* the stored members: Member IDs 1..NumStoredMembers, each with or without
\* a first name, set by the operator or not
MemberCollections ==
    { { pick[k] : k \in S } :
        S \in SUBSET (1..NumStoredMembers),
        pick \in { f \in [1..NumStoredMembers ->
                            UNION { { StoredMember(k, name, o) : name \in {NoValue, 1}, o \in BOOLEAN }
                                    : k \in 1..NumStoredMembers }] :
                     \A k \in 1..NumStoredMembers : MemberKey(f[k]) = k } }

\* a stored bucket of a member: page 0 holds the stored events in `attended`,
\* the later pages have been emptied by event deletions
StoredBucket(key, page, events, attended) ==
    [ id |-> BucketOid(key, page), memberId |-> MemberOid(key), page |-> page,
      events |-> IF page = 0
                 THEN [ id \in attended \cap Ids(events) |->
                          LET e == CHOOSE x \in events : x.id = id
                          IN [typeId |-> e.eventTypeId, value |-> e.value] ]
                 ELSE << >> ]

BucketCollections(members, events) ==
    { UNION { { StoredBucket(MemberKey(m), page, events, attended[MemberKey(m)])
                : page \in 0..(pages[MemberKey(m)] - 1) } : m \in members } :
        pages \in [1..NumStoredMembers -> 0..MaxStoredPages],
        attended \in [1..NumStoredMembers -> { {}, Ids(events) }] }

\* event types that declare no folder
NoFolderTypes == [i \in 1..NumEventTypes |-> EventTypeRecord(i, <<>>)]
\* the first event type declares folder 1
OneFolderTypes ==
    [i \in 1..NumEventTypes |-> EventTypeRecord(i, IF i = 1 THEN <<1>> ELSE <<>>)]

\* what one event's source may hold: the answers of some members, each with
\* or without a first name
ResponseLists ==
    { [i \in 1..Len(ms) |-> [memberId |-> ms[i], firstName |-> names[ms[i]]]] :
        ms \in { SortedSeq(S) : S \in SUBSET Mids }, names \in [Mids -> {NoValue, 2}] }

InitStorage(types, events, members, buckets, lim) ==
    /\ syncLock = FALSE
    /\ eventTypes = types
    /\ eventColl = events
    /\ audienceColl = members
    /\ eventsAttendedColl = buckets
    /\ limits = lim
    /\ dashboard = NewDashboard(types, members, events)

\* the source URIs of the files of the Drive
FileUris == { getDataSourceUrl(EVENT_DATA_SOURCES[MimeIndex(FileMime(k))], k) : k \in Files }

\* nothing has been asked yet; `fixed` tells whether Drive, the forms and the
\* sheets give the same answer each time they are asked
NothingAsked(fixed) ==
    [ fixed     |-> fixed,
      listed    |-> {},
      listings  |-> [f \in Folders |-> ListFails],
      answered  |-> {},
      responses |-> [u \in FileUris |-> <<>>] ]

\* what drive.files.list may answer for a folder
ListingAnswers(ext, folderId) ==
    IF ext.fixed /\ folderId \in ext.listed THEN { ext.listings[folderId] }
    ELSE Listings \cup {ListFails}

AfterListing(ext, folderId, listing) ==
    IF ext.fixed
    THEN [ext EXCEPT !.listed = @ \cup {folderId}, !.listings[folderId] = listing]
    ELSE ext

\* what the form or sheet of an event may hold
ResponseAnswers(ext, sourceUri) ==
    IF ext.fixed /\ sourceUri \in ext.answered THEN { ext.responses[sourceUri] }
    ELSE ResponseLists

AfterResponses(ext, sourceUri, responses) ==
    IF ext.fixed
    THEN [ext EXCEPT !.answered = @ \cup {sourceUri}, !.responses[sourceUri] = responses]
    ELSE ext

\* the API calls that may be in flight at once
ApiCalls == 1..NumApiCalls

\* an API call that has not been made, or has returned
IdleCall == [op |-> "none", pc |-> "idle", request |-> << >>, seen |-> << >>, result |-> ""]

\* no API call is in flight and the sync queue is empty
NoApi ==
    /\ calls = [a \in ApiCalls |-> IdleCall]
    /\ syncQueue = 0

\* every sync() call publishes and none has yet
NoLog ==
    /\ skipLogPublish = [p \in Procs |-> FALSE]
    /\ updateLog = [p \in Procs |-> <<>>]

\* call 1 is at position `pos` with instance `st`; the other calls are not made
Stepping(st, pos) ==
    /\ sync = [p \in Procs |-> IF p = 1 THEN st ELSE Unstarted]
    /\ dpc = [p \in Procs |-> IF p = 1 THEN pos ELSE "idle"]
    /\ seedIdx = [p \in Procs |-> 1]
    /\ external = NothingAsked(FALSE)
    /\ NoApi
    /\ NoLog

(***************************************************************************)
(* sync(): the check of the lock, the lock, and the reads before           *)
(* discovery.  Every await is a step of its own.                           *)
(***************************************************************************)
SyncUnchecked(lock) == FALSE

\* assert(!troupe.syncLock, "Troupe is already being synced")
SyncRejected(lock) == lock

CheckStep(p) ==
    /\ dpc[p] = "check"
    /\ dpc' = [dpc EXCEPT ![p] = IF SyncRejected(syncLock) THEN "rejected" ELSE "lock"]
    /\ UNCHANGED <<apiVars, logVars, external, sync, seedIdx, storageVars>>

\* findOneAndUpdate({ $set: { syncLock: true } }, { returnDocument: "after" })
LockStep(p) ==
    /\ dpc[p] = "lock"
    /\ syncLock' = TRUE
    /\ sync' = [sync EXCEPT ![p] = NewSyncTroupe(eventTypes, {}, ZeroIncrement, ProcOidBase(p))]
    /\ dpc' = [dpc EXCEPT ![p] = "load"]
    /\ UNCHANGED <<apiVars, logVars, external, seedIdx, eventTypes, eventColl, audienceColl, eventsAttendedColl,
                   limits, dashboard>>

\* the dashboard and the limits are read
LoadStep(p) ==
    /\ dpc[p] = "load"
    /\ sync' = [sync EXCEPT ![p].currentLimits = limits]
    /\ dpc' = [dpc EXCEPT ![p] = "events"]
    /\ UNCHANGED <<apiVars, logVars, external, seedIdx, storageVars>>

\* one of the two reads is rejected or finds nothing
LoadFails(p) ==
    /\ dpc[p] = "load"
    /\ sync' = [sync EXCEPT ![p] = Failed(@, "sync")]
    /\ dpc' = [dpc EXCEPT ![p] = "failed"]
    /\ UNCHANGED <<apiVars, logVars, external, seedIdx, storageVars>>

(***************************************************************************)
(* discoverEvents, step by step; the listings answered by Drive are chosen *)
(* at each call.                                                           *)
(***************************************************************************)
\* "Initialize existing events"
ReadEvents(p) ==
    /\ dpc[p] = "events"
    /\ sync' = [sync EXCEPT ![p].eventMap = InitialEventMap(eventColl)]
    /\ dpc' = [dpc EXCEPT ![p] = "seed"]
    /\ UNCHANGED <<apiVars, logVars, external, seedIdx, storageVars>>

ReadEventsFails(p) ==
    /\ dpc[p] = "events"
    /\ sync' = [sync EXCEPT ![p] = Failed(@, "discoverEvents")]
    /\ dpc' = [dpc EXCEPT ![p] = "failed"]
    /\ UNCHANGED <<apiVars, logVars, external, seedIdx, storageVars>>

SeedStep(p) ==
    /\ dpc[p] = "seed"
    /\ seedIdx[p] <= Len(SeedPairs(sync[p].eventTypes))
    /\ LET pair == SeedPairs(sync[p].eventTypes)[seedIdx[p]]
       IN sync' = [sync EXCEPT ![p] = SeedClaim(@, pair.folderId, pair.et)]
    /\ seedIdx' = [seedIdx EXCEPT ![p] = @ + 1]
    /\ UNCHANGED <<apiVars, logVars, external, dpc, storageVars>>

SeedDone(p) ==
    /\ dpc[p] = "seed"
    /\ seedIdx[p] > Len(SeedPairs(sync[p].eventTypes))
    /\ dpc' = [dpc EXCEPT ![p] = "explore"]
    /\ UNCHANGED <<apiVars, logVars, external, sync, seedIdx, storageVars>>

ExploreStep(p) ==
    /\ dpc[p] = "explore"
    /\ sync[p].foldersToExplore # <<>>
    /\ LET folderId == Last(sync[p].foldersToExplore)
       IN \E listing \in (IF NeedsListing(sync[p]) THEN ListingAnswers(external, folderId)
                                                     ELSE { Listed(<<>>) }) :
             LET after == ExploreFolder(sync[p], listing)
             IN  /\ sync' = [sync EXCEPT ![p] = IF after.raised
                                                THEN Failed(after, "discoverEvents")
                                                ELSE after]
                 /\ dpc' = [dpc EXCEPT ![p] = IF after.raised THEN "failed" ELSE "explore"]
                 /\ external' = IF NeedsListing(sync[p])
                                THEN AfterListing(external, folderId, listing)
                                ELSE external
    /\ UNCHANGED <<apiVars, logVars, seedIdx, storageVars>>

DiscoverDone(p) ==
    /\ dpc[p] = "explore"
    /\ sync[p].foldersToExplore = <<>>
    /\ dpc' = [dpc EXCEPT ![p] = "audience"]
    /\ UNCHANGED <<apiVars, logVars, external, sync, seedIdx, storageVars>>

(***************************************************************************)
(* discoverAndRefreshAudience, step by step.  The delegates of the events  *)
(* run concurrently; each merges its responses at once, in any order.      *)
(***************************************************************************)
HasDelegate(event) == event.source \in Range(EVENT_DATA_SOURCES)

AudienceInit(p) ==
    /\ dpc[p] = "audience"
    /\ sync' = [sync EXCEPT
                  ![p].attendeeMap = InitialAttendeeMap(audienceColl, eventsAttendedColl),
                  ![p].pendingDelegates =
                      { u \in DOMAIN sync[p].eventMap : HasDelegate(sync[p].eventMap[u].event) }]
    /\ dpc' = [dpc EXCEPT ![p] = "delegates"]
    /\ UNCHANGED <<apiVars, logVars, external, seedIdx, storageVars>>

RunDelegate(p) ==
    /\ dpc[p] = "delegates"
    /\ \E u \in sync[p].pendingDelegates :
          \E responses \in ResponseAnswers(external, u) :
              /\ sync' = [sync EXCEPT ![p] =
                            [MergeResponses(@, @.eventMap[u].event, responses, 1)
                                EXCEPT !.pendingDelegates = @ \ {u}]]
              /\ external' = AfterResponses(external, u, responses)
    /\ UNCHANGED <<apiVars, logVars, dpc, seedIdx, storageVars>>

RejectionIgnored(next) == next

\* a rejected await inside the try block of sync() leads to its catch block,
\* not to `next`, the position after the awaited method
Rejected(next) == "failed"

\* a delegate rejects: Promise.all rejects with it
DelegateFails(p) ==
    /\ dpc[p] = "delegates"
    /\ sync[p].pendingDelegates # {}
    /\ sync' = [sync EXCEPT ![p] = Failed(@, "discoverAndRefreshAudience")]
    /\ dpc' = [dpc EXCEPT ![p] = Rejected("persist")]
    /\ UNCHANGED <<apiVars, logVars, external, seedIdx, storageVars>>

MarkStep(p) ==
    /\ dpc[p] = "delegates"
    /\ sync[p].pendingDelegates = {}
    /\ sync' = [sync EXCEPT ![p] = MarkMembers(@)]
    /\ dpc' = [dpc EXCEPT ![p] = "persist"]
    /\ UNCHANGED <<apiVars, logVars, external, seedIdx, storageVars>>

(***************************************************************************)
(* persistSync, step by step.  None of its writes is given the session of  *)
(* the transaction they are issued in, so each takes effect on its own, in *)
(* program order, and stays when a later one fails.                        *)
(***************************************************************************)
PlanStep(p) ==
    /\ dpc[p] = "persist"
    /\ LET plan == PersistPlan(sync[p])
       IN  /\ sync' = [sync EXCEPT ![p] = IF plan.raised
                                          THEN Failed([@ EXCEPT !.plan = plan], "persistSync")
                                          ELSE [@ EXCEPT !.plan = plan]]
           /\ dpc' = [dpc EXCEPT ![p] = IF plan.raised THEN "failed" ELSE "writeDashboard"]
    /\ UNCHANGED <<apiVars, logVars, external, seedIdx, storageVars>>

WriteDashboard(p) ==
    /\ dpc[p] = "writeDashboard"
    /\ dashboard' = sync[p].plan.dashboardUpdate
    /\ dpc' = [dpc EXCEPT ![p] = "writeEvents"]
    /\ UNCHANGED <<apiVars, logVars, external, sync, seedIdx, syncLock, eventTypes, eventColl, audienceColl,
                   eventsAttendedColl, limits>>

WriteEvents(p) ==
    /\ dpc[p] = "writeEvents"
    /\ eventColl' = Upsert(eventColl, sync[p].plan.updateEvents)
    /\ dpc' = [dpc EXCEPT ![p] = "writeAudience"]
    /\ UNCHANGED <<apiVars, logVars, external, sync, seedIdx, syncLock, eventTypes, audienceColl,
                   eventsAttendedColl, limits, dashboard>>

WriteAudience(p) ==
    /\ dpc[p] = "writeAudience"
    /\ audienceColl' = Upsert(audienceColl, sync[p].plan.updateAudience)
    /\ dpc' = [dpc EXCEPT ![p] = "deleteMembers"]
    /\ UNCHANGED <<apiVars, logVars, external, sync, seedIdx, syncLock, eventTypes, eventColl,
                   eventsAttendedColl, limits, dashboard>>

DeleteMembers(p) ==
    /\ dpc[p] = "deleteMembers"
    /\ audienceColl' = DeleteMany(audienceColl, sync[p].plan.membersToDelete)
    /\ dpc' = [dpc EXCEPT ![p] = "writeBuckets"]
    /\ UNCHANGED <<apiVars, logVars, external, sync, seedIdx, syncLock, eventTypes, eventColl,
                   eventsAttendedColl, limits, dashboard>>

WriteBuckets(p) ==
    /\ dpc[p] = "writeBuckets"
    /\ eventsAttendedColl' = Upsert(eventsAttendedColl, sync[p].plan.updateEventsAttended)
    /\ dpc' = [dpc EXCEPT ![p] = "deleteBuckets"]
    /\ UNCHANGED <<apiVars, logVars, external, sync, seedIdx, syncLock, eventTypes, eventColl,
                   audienceColl, limits, dashboard>>

DeleteBuckets(p) ==
    /\ dpc[p] = "deleteBuckets"
    /\ eventsAttendedColl' = DeleteMany(eventsAttendedColl, sync[p].plan.eventsAttendedToDelete)
    /\ dpc' = [dpc EXCEPT ![p] = "incrementLimits"]
    /\ UNCHANGED <<apiVars, logVars, external, sync, seedIdx, syncLock, eventTypes, eventColl,
                   audienceColl, limits, dashboard>>

IncrementStep(p) ==
    /\ dpc[p] = "incrementLimits"
    /\ IF WithinLimits(limits, sync[p].incrementLimits)
       THEN /\ limits' = IncrementLimits(limits, sync[p].incrementLimits)
            /\ dpc' = [dpc EXCEPT ![p] = "persisted"]
            /\ sync' = sync
       ELSE /\ limits' = limits
            /\ dpc' = [dpc EXCEPT ![p] = "failed"]
            /\ sync' = [sync EXCEPT ![p] = Failed(@, "persistSync")]
    /\ UNCHANGED <<apiVars, logVars, external, seedIdx, syncLock, eventTypes, eventColl, audienceColl,
                   eventsAttendedColl, dashboard>>

\* one of the database calls of persistSync is rejected
WriteFails(p) ==
    /\ dpc[p] \in {"writeDashboard", "writeEvents", "writeAudience", "deleteMembers",
                   "writeBuckets", "deleteBuckets", "incrementLimits"}
    /\ sync' = [sync EXCEPT ![p] = Failed(@, "persistSync")]
    /\ dpc' = [dpc EXCEPT ![p] = "failed"]
    /\ UNCHANGED <<apiVars, logVars, external, seedIdx, storageVars>>

(***************************************************************************)
(* sync(): publication, the catch block and the unlock.                    *)
(***************************************************************************)
\* if(!skipLogPublish)
PublishAlways(skip) == TRUE
PublishAsked(skip) == ~skip

\* the orders a list of the documents of S can have
Orders(S) ==
    { seq \in [1..Cardinality(S) -> S] : \A i, j \in DOMAIN seq : i # j => seq[i] # seq[j] }

\* the comparators handed to Array.prototype.sort
byStartDate(a, b) == a.startDate - b.startDate
byTotal(a, b) == a.points["Total"] - b.points["Total"]

\* Array.prototype.sort with a comparator, and the same list in the opposite order
JsSortReversed(S, compare) ==
    CHOOSE seq \in Orders(S) : \A i \in 1..(Len(seq) - 1) : compare[seq[i], seq[i + 1]] >= 0
JsSort(S, compare) ==
    CHOOSE seq \in Orders(S) : \A i \in 1..(Len(seq) - 1) : compare[seq[i], seq[i + 1]] <= 0

\* the attendee built from an entry of attendeeMap
Attendee(data) ==
    data.member @@ [eventsAttended |-> { data.eventsAttended[i] : i \in DOMAIN data.eventsAttended }]

\* refreshLogSheet: the two lists handed to updateLog
refreshLogSheet(st) ==
    LET events == { st.eventMap[uri].event : uri \in DOMAIN st.eventMap }
        audience == { Attendee(st.attendeeMap[m]) : m \in DOMAIN st.attendeeMap }
    IN  [ events   |-> JsSort(events, [a \in events, b \in events |-> byStartDate(a, b)]),
          audience |-> JsSort(audience, [a \in audience, b \in audience |-> byTotal(a, b)]) ]

\* refreshLogSheet invokes the publisher, which returns
PublishStep(p) ==
    /\ dpc[p] = "persisted"
    /\ PublishAsked(skipLogPublish[p])
    /\ updateLog' = [updateLog EXCEPT ![p] = Append(@, refreshLogSheet(sync[p]))]
    /\ dpc' = [dpc EXCEPT ![p] = "unlock"]
    /\ UNCHANGED <<apiVars, skipLogPublish, external, sync, seedIdx, storageVars>>

\* the publisher is invoked and throws
PublishFails(p) ==
    /\ dpc[p] = "persisted"
    /\ PublishAsked(skipLogPublish[p])
    /\ updateLog' = [updateLog EXCEPT ![p] = Append(@, refreshLogSheet(sync[p]))]
    /\ sync' = [sync EXCEPT ![p] = Failed(@, "refreshLogSheet")]
    /\ dpc' = [dpc EXCEPT ![p] = "failed"]
    /\ UNCHANGED <<apiVars, skipLogPublish, external, seedIdx, storageVars>>

\* skipLogPublish is set: refreshLogSheet is not called
PublishSkipped(p) ==
    /\ dpc[p] = "persisted"
    /\ ~PublishAsked(skipLogPublish[p])
    /\ dpc' = [dpc EXCEPT ![p] = "unlock"]
    /\ UNCHANGED <<apiVars, logVars, external, sync, seedIdx, storageVars>>

\* catch(e): the reason is printed
CatchStep(p) ==
    /\ dpc[p] = "failed"
    /\ dpc' = [dpc EXCEPT ![p] = "unlock"]
    /\ UNCHANGED <<apiVars, logVars, external, sync, seedIdx, storageVars>>

LockKept(lock) == lock

\* { $set: { syncLock: false } }
Unlocked(lock) == FALSE

\* updateOne reports modifiedCount 1 when the document changed
UnlockStep(p) ==
    /\ dpc[p] = "unlock"
    /\ syncLock' = Unlocked(syncLock)
    /\ dpc' = [dpc EXCEPT ![p] = IF syncLock' # syncLock THEN "returned" ELSE "raised"]
    /\ UNCHANGED <<apiVars, logVars, external, sync, seedIdx, eventTypes, eventColl, audienceColl, eventsAttendedColl,
                   limits, dashboard>>

(***************************************************************************)
(* Specifications.                                                         *)
(***************************************************************************)
\* the seeding loops over every declaration of up to MaxDeclared folders
InitSeed ==
    \E types \in Declarations(MaxDeclared) :
        /\ InitStorage(types, {}, {}, {}, FullLimits(MaxQuota))
        /\ Stepping(NewSyncTroupe(types, {}, FullLimits(MaxQuota), ProcOidBase(1)), "seed")

NextSeed == \E p \in Procs : SeedStep(p) \/ SeedDone(p)
SpecSeed == InitSeed /\ [][NextSeed]_vars

\* the whole of discoverEvents over small declarations, any stored events
InitDiscover ==
    \E types \in Declarations(MaxDeclaredExplore), events \in EventCollections,
       q \in 0..MaxQuota :
        /\ \A e1, e2 \in events : e1.sourceUri = e2.sourceUri => e1 = e2
        /\ InitStorage(types, events, {}, {}, FullLimits(q))
        /\ Stepping(NewSyncTroupe(types, events, FullLimits(q), ProcOidBase(1)), "seed")

NextDiscover ==
    \E p \in Procs : SeedStep(p) \/ SeedDone(p) \/ ExploreStep(p) \/ DiscoverDone(p)
SpecDiscover == InitDiscover /\ [][NextDiscover]_vars

\* discoverEvents when the call is never suspended for ever: a loop
\* iteration that can be taken is eventually taken
SpecDiscoverFair == InitDiscover /\ [][NextDiscover]_vars /\ WF_vars(NextDiscover)

\* discoverEvents over a Drive that answers the same each time it is asked
InitBackfill ==
    \E types \in Declarations(MaxDeclaredExplore), events \in EventCollections :
        /\ \A e1, e2 \in events : e1.sourceUri = e2.sourceUri => e1 = e2
        /\ InitStorage(types, events, {}, {}, FullLimits(MaxQuota))
        /\ sync = [p \in Procs |->
                     IF p = 1 THEN NewSyncTroupe(types, events, FullLimits(MaxQuota), ProcOidBase(1))
                              ELSE Unstarted]
        /\ dpc = [p \in Procs |-> IF p = 1 THEN "seed" ELSE "idle"]
        /\ seedIdx = [p \in Procs |-> 1]
        /\ external = NothingAsked(TRUE)
        /\ NoApi
        /\ NoLog

SpecBackfill == InitBackfill /\ [][NextDiscover]_vars

\* discoverAndRefreshAudience and persistSync over any stored events, members
\* and buckets
InitAudience ==
    \E events \in EventCollections, members \in MemberCollections, q \in 0..MaxQuota :
        /\ \A e1, e2 \in events : e1.sourceUri = e2.sourceUri => e1 = e2
        /\ \E buckets \in BucketCollections(members, events) :
              LET lim == [FullLimits(MaxQuota) EXCEPT !.membersLeft = q]
              IN  /\ InitStorage(NoFolderTypes, events, members, buckets, lim)
                  /\ Stepping(NewSyncTroupe(NoFolderTypes, events, lim, ProcOidBase(1)),
                              "audience")

PersistSteps(p) ==
    \/ PlanStep(p) \/ WriteDashboard(p) \/ WriteEvents(p) \/ WriteAudience(p)
    \/ DeleteMembers(p) \/ WriteBuckets(p) \/ DeleteBuckets(p) \/ IncrementStep(p)
    \/ WriteFails(p)

NextAudience ==
    \E p \in Procs :
        \/ AudienceInit(p) \/ RunDelegate(p) \/ DelegateFails(p) \/ MarkStep(p)
        \/ PersistSteps(p)
SpecAudience == InitAudience /\ [][NextAudience]_vars

\* persistSync for one stored member that attended the first n of the events
\* and whose stored buckets were written by a sync that found n0 records
PagingEvent(i) ==
    [ id |-> i, source |-> EVENT_DATA_SOURCES[1],
      sourceUri |-> getDataSourceUrl(EVENT_DATA_SOURCES[1], i), startDate |-> i,
      eventTypeId |-> 1, eventTypeTitle |-> <<"title", 1>>, value |-> 1 ]

PagingMember(points) ==
    [StoredMember(1, 1, FALSE) EXCEPT !.id = MaxStoredRecords + 1,
                                      !.points = [pt \in pointTypes |-> points]]

PagingData(member, n, docs, fromColl) ==
    [ member             |-> member,
      eventsAttended     |-> [i \in 1..n |-> AttendanceRecord(PagingEvent(i))],
      eventsAttendedDocs |-> docs,
      delete             |-> FALSE,
      fromColl           |-> fromColl ]

StoredBucketsAfter(n0) ==
    PageLoop(PagingData(PagingMember(n0), n0, <<>>, FALSE), 0,
             [docs |-> {}, nextOid |-> MaxStoredRecords + 2, page |-> 0])

StoredCounts == { n0 \in 0..MaxStoredRecords : n0 % StoredStride = 0 }

InitPaging ==
    \E n \in 0..MaxRecords, n0 \in StoredCounts :
        LET prev == StoredBucketsAfter(n0)
            events == { PagingEvent(i) : i \in 1..Max(n, n0) }
            lim == FullLimits(MaxQuota)
            st == NewSyncTroupe(NoFolderTypes, events, lim, prev.nextOid)
            data == PagingData(PagingMember(n), n, SortByPage(prev.docs), TRUE)
        IN  /\ InitStorage(NoFolderTypes, events, {PagingMember(n0)}, prev.docs, lim)
            /\ Stepping([st EXCEPT !.attendeeMap = (1 :> data)], "persist")

NextPaging == \E p \in Procs : PersistSteps(p)
SpecPaging == InitPaging /\ [][NextPaging]_vars

\* concurrent sync() calls on a troupe whose first event type declares a
\* folder, whose form has already been discovered and that has no member yet
InitSync ==
    /\ \E q \in 0..MaxQuota :
          LET events == { e \in StoredEvents(1) : e.eventTypeId # NoType }
          IN InitStorage(OneFolderTypes, events, {}, {},
                         [FullLimits(0) EXCEPT !.membersLeft = q])
    /\ sync = [p \in Procs |-> Unstarted]
    /\ dpc = [p \in Procs |-> "check"]
    /\ seedIdx = [p \in Procs |-> 1]
    /\ external = NothingAsked(FALSE)
    /\ NoApi
    /\ NoLog

Next ==
    \E p \in Procs :
        \/ CheckStep(p) \/ LockStep(p) \/ LoadStep(p) \/ LoadFails(p)
        \/ ReadEvents(p) \/ ReadEventsFails(p)
        \/ SeedStep(p) \/ SeedDone(p) \/ ExploreStep(p) \/ DiscoverDone(p)
        \/ AudienceInit(p) \/ RunDelegate(p) \/ DelegateFails(p) \/ MarkStep(p)
        \/ PersistSteps(p)
        \/ PublishStep(p) \/ PublishFails(p) \/ CatchStep(p) \/ UnlockStep(p)
Init == InitSync
Spec == Init /\ [][Next]_vars

\* one sync() call, with or without skipLogPublish, on a troupe with at most
\* one event; any read, write or publication may be rejected
InitPublish ==
    /\ \E events \in { {}, { e \in StoredEvents(1) : e.eventTypeId # NoType } },
          q \in 0..MaxQuota, qm \in 0..MaxQuota :
          InitStorage(OneFolderTypes, events, {}, {},
                      [FullLimits(q) EXCEPT !.membersLeft = qm])
    /\ sync = [p \in Procs |-> Unstarted]
    /\ dpc = [p \in Procs |-> IF p = 1 THEN "check" ELSE "idle"]
    /\ seedIdx = [p \in Procs |-> 1]
    /\ external = NothingAsked(FALSE)
    /\ NoApi
    /\ \E skip \in BOOLEAN : skipLogPublish = [p \in Procs |-> p = 1 /\ skip]
    /\ updateLog = [p \in Procs |-> <<>>]

NextPublish ==
    \E p \in Procs :
        \/ CheckStep(p) \/ LockStep(p) \/ LoadStep(p) \/ LoadFails(p)
        \/ ReadEvents(p) \/ ReadEventsFails(p)
        \/ SeedStep(p) \/ SeedDone(p) \/ ExploreStep(p) \/ DiscoverDone(p)
        \/ AudienceInit(p) \/ RunDelegate(p) \/ DelegateFails(p) \/ MarkStep(p)
        \/ PersistSteps(p)
        \/ PublishStep(p) \/ PublishFails(p) \/ PublishSkipped(p)
        \/ CatchStep(p) \/ UnlockStep(p)
SpecPublish == InitPublish /\ [][NextPublish]_vars

\* the caller calls sync() again once the previous call has returned
StartNext(p) ==
    /\ dpc[p] = "idle"
    /\ p > 1
    /\ dpc[p - 1] = "returned"
    /\ dpc' = [dpc EXCEPT ![p] = "check"]
    /\ UNCHANGED <<apiVars, logVars, external, sync, seedIdx, storageVars>>

\* sync() called again and again, one call after the other, on a troupe with
\* no member and at most one event, while the Drive, the forms and the sheets
\* do not change and no database call is rejected
InitTwice ==
    /\ \E events \in { {}, { e \in StoredEvents(1) : e.eventTypeId # NoType } },
          q \in 0..MaxQuota, qm \in 0..MaxQuota :
          InitStorage(OneFolderTypes, events, {}, {},
                      [FullLimits(q) EXCEPT !.membersLeft = qm])
    /\ sync = [p \in Procs |-> Unstarted]
    /\ dpc = [p \in Procs |-> IF p = 1 THEN "check" ELSE "idle"]
    /\ seedIdx = [p \in Procs |-> 1]
    /\ external = NothingAsked(TRUE)
    /\ NoApi
    /\ NoLog

NextTwice ==
    \E p \in Procs :
        \/ StartNext(p)
        \/ CheckStep(p) \/ LockStep(p) \/ LoadStep(p) \/ ReadEvents(p)
        \/ SeedStep(p) \/ SeedDone(p) \/ ExploreStep(p) \/ DiscoverDone(p)
        \/ AudienceInit(p) \/ RunDelegate(p) \/ MarkStep(p)
        \/ PlanStep(p) \/ WriteDashboard(p) \/ WriteEvents(p) \/ WriteAudience(p)
        \/ DeleteMembers(p) \/ WriteBuckets(p) \/ DeleteBuckets(p) \/ IncrementStep(p)
        \/ PublishStep(p) \/ CatchStep(p) \/ UnlockStep(p)
SpecTwice == InitTwice /\ [][NextTwice]_vars

(***************************************************************************)
(* Claims about sync().                                                    *)
(***************************************************************************)
\* the positions of a call between its lock write and its unlock write
InFlight ==
    { "load", "events", "seed", "explore", "audience", "delegates", "persist",
      "writeDashboard", "writeEvents", "writeAudience", "deleteMembers", "writeBuckets",
      "deleteBuckets", "incrementLimits", "persisted", "failed", "unlock" }

Running == { p \in Procs : dpc[p] \in InFlight }

\* C1: at any time at most one sync() call of the troupe is between its lock
\* acquisition and its lock release.
C1_MutualExclusion == Cardinality(Running) <= 1

\* C2: the lock is true only while some sync() call is between its start and
\* its end, and the unlock step that ends a call leaves it false, whatever
\* happened inside the call.
C2_LockOnlyDuringSync ==
    /\ [](syncLock => Running # {})
    /\ [][ \A p \in Procs : (dpc[p] = "unlock" /\ dpc'[p] # "unlock") => ~syncLock' ]_vars

\* C2 witness: one call has returned after a failure of audience discovery,
\* another after a failure of persistence, and the lock is false.
C2_ReleasedAfterFailures ==
    /\ ~syncLock
    /\ \E p, q \in Procs :
          /\ dpc[p] = "returned" /\ sync[p].failedIn = "discoverAndRefreshAudience"
          /\ dpc[q] = "returned" /\ sync[q].failedIn = "persistSync"

\* C3: a sync() call that finds the lock held is rejected, and its step
\* changes neither the lock nor any stored collection, dashboard or limits.
C3_RejectedLeavesAll ==
    [][ \A p \in Procs :
          (dpc[p] = "check" /\ syncLock /\ dpc'[p] # "check") =>
              /\ dpc'[p] = "rejected"
              /\ UNCHANGED storageVars ]_vars

\* C3 witness: a call was rejected while another call holds the lock and has
\* already written to the audience.
C3_Rejected ==
    \E p, q \in Procs :
        /\ dpc[p] = "rejected"
        /\ dpc[q] \in {"deleteMembers", "writeBuckets", "deleteBuckets", "incrementLimits"}

\* C4: a sync() call that has acquired the lock never raises to its caller.
C4_NeverRaises == \A p \in Procs : dpc[p] # "raised"

(***************************************************************************)
(* Claims about discoverEvents.                                            *)
(***************************************************************************)
DeclaredBy(i) == { getDataSourceId(u) : u \in Range(eventTypes[i].sourceFolderUris) }

\* C5: when a declared folder is claimed, a folder without an owner goes to
\* the claimant; a folder with an owner stays with that owner exactly when
\* the owner's discovered-file count is strictly less than the challenger's,
\* and goes to the challenger otherwise (equal counts included).
C5_TieBreak ==
    [][ \A p \in Procs :
          (dpc[p] = "seed" /\ seedIdx'[p] = seedIdx[p] + 1) =>
              LET pair == SeedPairs(sync[p].eventTypes)[seedIdx[p]]
                  f == pair.folderId
                  challenger == pair.et
                  owner == sync[p].folderToEventTypeMap[f]
                  after == sync'[p].folderToEventTypeMap[f]
              IN  /\ owner = NoType => after = challenger
                  /\ owner # NoType =>
                        /\ (after = owner) <=>
                              (sync[p].totalFiles[owner] < sync[p].totalFiles[challenger])
                        /\ after # owner => after = challenger ]_vars

\* C5 witness: seeding is over and a folder declared by both event types is
\* still owned by the first, so the second's challenge was lost.
C5_OwnerKept ==
    \E p \in Procs :
        /\ dpc[p] = "explore"
        /\ \E f \in DeclaredBy(1) \cap DeclaredBy(2) :
              /\ sync[p].folderToEventTypeMap[f] = 1
              /\ sync[p].totalFiles[1] < sync[p].totalFiles[2]

NewEvents(st) == { u \in DOMAIN st.eventMap : ~st.eventMap[u].fromColl }

\* C6: the number of new events created by one discovery never exceeds the
\* eventsLeft of the limits snapshot taken at sync start.
C6_EventQuotaGating ==
    \A p \in Procs : Cardinality(NewEvents(sync[p])) <= sync[p].currentLimits.eventsLeft

(***************************************************************************)
(* Claims about persistSync.                                               *)
(***************************************************************************)
Kept(memberData) == ~(memberData.delete /\ memberData.fromColl)
BucketsOf(memberData) == { b \in eventsAttendedColl : b.memberId = memberData.member.id }
PagesFor(n) == (n + MAX_PAGE_SIZE - 1) \div MAX_PAGE_SIZE
LacksRequired(memberData) ==
    \E prop \in requiredProperties : memberData.member.properties[prop].value = NoValue

\* C7: after persistence, a kept member with N accumulated records has
\* exactly ceil(N / MAX_PAGE_SIZE) stored buckets, with pages 0..k-1, each
\* holding MAX_PAGE_SIZE records but the last, which holds the remainder;
\* no stored bucket of a later page is left.
C7_BucketPaging ==
    \A p \in Procs :
        dpc[p] = "persisted" =>
            \A key \in DOMAIN sync[p].attendeeMap :
                LET d == sync[p].attendeeMap[key]
                    n == Len(d.eventsAttended)
                    k == PagesFor(n)
                IN  Kept(d) =>
                        /\ { b.page : b \in BucketsOf(d) } = 0..(k - 1)
                        /\ Cardinality(BucketsOf(d)) = k
                        /\ \A b \in BucketsOf(d) :
                              Cardinality(DOMAIN b.events) =
                                  IF b.page < k - 1 THEN MAX_PAGE_SIZE
                                  ELSE n - MAX_PAGE_SIZE * (k - 1)

\* C8: after persistence, the stored bucket of a kept member at each page
\* holds exactly the records accumulated in this sync for that page, whether
\* the bucket was created or reused.
C8_BucketContent ==
    \A p \in Procs :
        dpc[p] = "persisted" =>
            \A key \in DOMAIN sync[p].attendeeMap :
                LET d == sync[p].attendeeMap[key]
                    n == Len(d.eventsAttended)
                IN  Kept(d) =>
                        \A b \in BucketsOf(d) :
                            /\ b.page < PagesFor(n)
                            /\ b.events = PageEvents(d.eventsAttended, b.page * MAX_PAGE_SIZE,
                                                     Min((b.page + 1) * MAX_PAGE_SIZE, n))

(***************************************************************************)
(* Claims about members that lack a required property.                     *)
(***************************************************************************)
\* C9: after persistence, a member that was stored before the sync and lacks
\* a required property is in the audience no more, and none of its buckets
\* is stored.
C9_StoredInvalidRemoved ==
    \A p \in Procs :
        dpc[p] = "persisted" =>
            \A key \in DOMAIN sync[p].attendeeMap :
                LET d == sync[p].attendeeMap[key]
                IN  (d.fromColl /\ LacksRequired(d)) =>
                        /\ d.member.id \notin Ids(audienceColl)
                        /\ BucketsOf(d) = {}

\* C9 witness: a stored member with stored buckets and attendance in this
\* sync lacked its first name, and is gone with its buckets.
C9_StoredInvalidGone ==
    \E p \in Procs :
        /\ dpc[p] = "persisted"
        /\ \E key \in DOMAIN sync[p].attendeeMap :
              LET d == sync[p].attendeeMap[key]
              IN  /\ d.fromColl /\ LacksRequired(d)
                  /\ Len(d.eventsAttendedDocs) > 1
                  /\ d.eventsAttended # <<>>
                  /\ d.member.id \notin Ids(audienceColl)
                  /\ BucketsOf(d) = {}

\* C10: after persistence, a member first discovered in this sync that lacks
\* a required property is not in the audience and has no stored bucket.
C10_NewInvalidNotPersisted ==
    \A p \in Procs :
        dpc[p] = "persisted" =>
            \A key \in DOMAIN sync[p].attendeeMap :
                LET d == sync[p].attendeeMap[key]
                IN  (~d.fromColl /\ LacksRequired(d)) =>
                        /\ d.member.id \notin Ids(audienceColl)
                        /\ BucketsOf(d) = {}

(***************************************************************************)
(* Claims about the commit of persistSync and about failed runs.           *)
(***************************************************************************)
WritePositions ==
    { "writeDashboard", "writeEvents", "writeAudience", "deleteMembers", "writeBuckets",
      "deleteBuckets", "incrementLimits" }
AfterFailure == { "failed", "unlock", "returned", "raised" }
DataVars == <<eventColl, audienceColl, eventsAttendedColl, limits, dashboard>>

StoredMemberIds(st) ==
    { st.attendeeMap[key].member.id : key \in { k \in DOMAIN st.attendeeMap : st.attendeeMap[k].fromColl } }
StoredBucketDocs(st) ==
    UNION { Range(st.attendeeMap[key].eventsAttendedDocs) : key \in DOMAIN st.attendeeMap }

\* C11: when persistSync has failed, none of its writes is visible: the
\* stored members and buckets are those read before the run and the limits
\* are those of the snapshot.
C11_CommitAtomicity ==
    \A p \in Procs :
        (dpc[p] = "failed" /\ sync[p].failedIn = "persistSync" /\ ~sync[p].plan.raised) =>
            /\ Ids(audienceColl) = StoredMemberIds(sync[p])
            /\ eventsAttendedColl = StoredBucketDocs(sync[p])
            /\ limits = sync[p].currentLimits

FailedBeforePersist(st) == st.failedIn \in {"discoverEvents", "discoverAndRefreshAudience"}
Steps(p) == <<sync[p], dpc[p], seedIdx[p]>>' # <<sync[p], dpc[p], seedIdx[p]>>

\* C12: a call in which event discovery or a delegate has failed goes to
\* the catch block and the unlock only, and no step of a call outside the
\* writes of persistSync changes the stored events, members, buckets,
\* dashboard or limits.
C12_FailedRunWritesNothing ==
    /\ [](\A p \in Procs : FailedBeforePersist(sync[p]) => dpc[p] \in AfterFailure)
    /\ [][ \A p \in Procs :
              (Steps(p) /\ dpc[p] \notin WritePositions) => UNCHANGED DataVars ]_vars

\* C12 witness: one call has returned after event discovery failed, another
\* after a delegate failed, and nothing has been written.
C12_FailedRunsReturned ==
    /\ \E p, q \in Procs :
          /\ dpc[p] = "returned" /\ sync[p].failedIn = "discoverEvents"
          /\ dpc[q] = "returned" /\ sync[q].failedIn = "discoverAndRefreshAudience"
    /\ audienceColl = {}
    /\ eventsAttendedColl = {}

(***************************************************************************)
(* Claims about repeated runs.                                             *)
(***************************************************************************)
Succeeded(p) == dpc[p] = "returned" /\ sync[p].failedIn = ""
SourceUris(events) == { e.sourceUri : e \in events }
PointTotals(members) == { <<MemberKey(m), m.points>> : m \in members }
KeptMembers(st) ==
    { st.attendeeMap[key].member :
        key \in { k \in DOMAIN st.attendeeMap : Kept(st.attendeeMap[k]) } }

\* C13: when two runs in a row over the same Drive, forms and sheets have
\* both completed, the stored events have the source identifiers they had
\* after the first run, one event each, the members have the point totals
\* they had after the first run, and the limits are those the second run
\* started from.
C13_Idempotence ==
    \A p \in Procs :
        (p > 1 /\ Succeeded(p - 1) /\ Succeeded(p)) =>
            /\ SourceUris(eventColl) = DOMAIN sync[p - 1].eventMap
            /\ Cardinality(eventColl) = Cardinality(SourceUris(eventColl))
            /\ PointTotals(audienceColl) = PointTotals(KeptMembers(sync[p - 1]))
            /\ limits = sync[p].currentLimits

(***************************************************************************)
(* The event type calls of the API service.  Each runs its writes in one   *)
(* transaction with the session passed to every write, so a call is one    *)
(* step; a call that fails changes nothing and is no step.                 *)
(***************************************************************************)
\* `eventTypes.${MAX_EVENT_TYPES}` exists: array positions count from 0
MaxEventTypesReached(types) == Len(types) >= MAX_EVENT_TYPES + 1

ExistingSourceUris(types) == UNION { Range(types[i].sourceFolderUris) : i \in 1..Len(types) }

\* the assertions on the source folder URIs of a request
ValidSourceUris(types, request) ==
    /\ NoDup(request.sourceFolderUris)
    /\ Range(request.sourceFolderUris) \cap ExistingSourceUris(types) = {}

\* new ObjectId(): an id no event type of the troupe has
NewTypeId(types) ==
    LET ids == TypeIdsOf(types) \cup {0}
    IN (CHOOSE m \in ids : \A i \in ids : i <= m) + 1

NewEventType(types, request) ==
    [ id |-> NewTypeId(types), title |-> request.title, value |-> request.value,
      sourceFolderUris |-> request.sourceFolderUris ]

CreateEventTypeRequests ==
    { [title |-> <<"title", 0>>, value |-> 1, sourceFolderUris |-> uris] :
        uris \in { <<>> } \cup { <<FolderUrl(f)>> : f \in Folders } }

\* the troupe update of one createEventType; ok is FALSE when an assertion fails
PushEventType(types, request) ==
    IF ValidSourceUris(types, request) /\ ~MaxEventTypesReached(types)
    THEN [ok |-> TRUE, types |-> Append(types, NewEventType(types, request))]
    ELSE [ok |-> FALSE, types |-> types]

RECURSIVE PushEventTypes(_, _, _)
PushEventTypes(types, requests, k) ==
    IF k > Len(requests) THEN [ok |-> TRUE, types |-> types]
    ELSE LET one == PushEventType(types, requests[k])
         IN IF one.ok THEN PushEventTypes(one.types, requests, k + 1) ELSE one

ApiLimits(eventTypesLeft) ==
    FullLimits(MaxQuota) @@ [modifyOperationsLeft |-> MaxOps, eventTypesLeft |-> eventTypesLeft]

createEventType(request) ==
    LET pushed == PushEventType(eventTypes, request)
        delta == [modifyOperationsLeft |-> -1, eventTypesLeft |-> -1]
    IN  /\ pushed.ok
        /\ WithinLimits(limits, delta)
        /\ eventTypes' = pushed.types
        /\ limits' = IncrementLimits(limits, delta)
        /\ UNCHANGED <<syncLock, eventColl, audienceColl, eventsAttendedColl, dashboard,
                       discVars, external, apiVars>>

\* the limits are ignored for the single creations and checked once for all
createEventTypes(requests) ==
    LET pushed == PushEventTypes(eventTypes, requests, 1)
        delta == [modifyOperationsLeft |-> -1, eventTypesLeft |-> Len(requests) * (-1)]
    IN  /\ pushed.ok
        /\ WithinLimits(limits, delta)
        /\ eventTypes' = pushed.types
        /\ limits' = IncrementLimits(limits, delta)
        /\ UNCHANGED <<syncLock, eventColl, audienceColl, eventsAttendedColl, dashboard,
                       discVars, external, apiVars>>

\* $pull of the event type with the given id
PullEventType(types, eventTypeId) ==
    LET keep == { i \in 1..Len(types) : types[i].id # eventTypeId }
    IN [j \in 1..Cardinality(keep) |->
           types[CHOOSE i \in keep : Cardinality({ l \in keep : l < i }) = j - 1]]

deleteEventType(eventTypeId) ==
    LET delta == [modifyOperationsLeft |-> -1, eventTypesLeft |-> 1]
    IN  /\ ~syncLock
        /\ WithinLimits(limits, delta)
        /\ eventColl' = { IF e.eventTypeId = eventTypeId
                           THEN [e EXCEPT !.eventTypeId = NoType] ELSE e : e \in eventColl }
        /\ eventsAttendedColl' =
              { [b EXCEPT !.events = [id \in { i \in DOMAIN b.events :
                                                   b.events[i].typeId # eventTypeId } |->
                                          b.events[id]]] : b \in eventsAttendedColl }
        /\ eventTypes' = PullEventType(eventTypes, eventTypeId)
        /\ limits' = IncrementLimits(limits, delta)
        /\ UNCHANGED <<syncLock, audienceColl, dashboard, discVars, external, apiVars>>

\* a troupe with any number of event types up to MAX_EVENT_TYPES, an event
\* linked to the first one, and no sync running or one holding the lock
InitApi ==
    \E n \in 0..MAX_EVENT_TYPES, left \in 0..MaxTypesLeft, locked \in BOOLEAN :
        LET types == [i \in 1..n |-> EventTypeRecord(i, <<>>)]
            events == IF n = 0 THEN {} ELSE { e \in StoredEvents(1) : e.eventTypeId # NoType }
        IN  /\ syncLock = locked
            /\ eventTypes = types
            /\ eventColl = events
            /\ audienceColl = {}
            /\ eventsAttendedColl = {}
            /\ limits = ApiLimits(left)
            /\ dashboard = NewDashboard(types, {}, events)
            /\ sync = [p \in Procs |-> Unstarted]
            /\ dpc = [p \in Procs |-> "idle"]
            /\ seedIdx = [p \in Procs |-> 1]
            /\ external = NothingAsked(FALSE)
            /\ NoApi
            /\ NoLog

NextApi ==
    \/ \E request \in CreateEventTypeRequests : createEventType(request)
    \/ \E requests \in SeqsUpTo(CreateEventTypeRequests, MaxBatch) :
          Len(requests) > 0 /\ createEventTypes(requests)
    \/ \E eventTypeId \in TypeIdsOf(eventTypes) \cup {NewTypeId(eventTypes)} :
          deleteEventType(eventTypeId)

SpecApi == InitApi /\ [][NextApi]_vars

(***************************************************************************)
(* API calls in flight.  A single call reads the troupe (and the events or *)
(* buckets it needs) and runs its assertions, then runs dbUpdate in a      *)
(* transaction of its own: other calls may write between the two.  A batch *)
(* call runs the single calls inside one transaction, with its session.    *)
(* `seen` is the stored data as the call read it, `db` the stored data the *)
(* transaction writes to.                                                  *)
(***************************************************************************)
Db == [ syncLock |-> syncLock, eventTypes |-> eventTypes, eventColl |-> eventColl,
        audienceColl |-> audienceColl, eventsAttendedColl |-> eventsAttendedColl,
        limits |-> limits ]

Done(db) == [ok |-> TRUE, error |-> "", db |-> db]
Thrown(db, error) == [ok |-> FALSE, error |-> error, db |-> db]

\* limitService.incrementTroupeLimits under a limit context that ignores the
\* limits (ignore) or under none
incrementTroupeLimits(ignore, db, delta) ==
    IF ignore THEN Done(db)
    ELSE IF WithinLimits(db.limits, delta)
    THEN Done([db EXCEPT !.limits = IncrementLimits(@, delta)])
    ELSE Thrown(db, "ClientError")

\* limitService.withinTroupeLimits
withinTroupeLimits(ignore, db, delta) == ignore \/ WithinLimits(db.limits, delta)

\* new ObjectId(): an id no stored document has
NewObjectId(db) ==
    LET ids == Ids(db.eventColl) \cup Ids(db.audienceColl) \cup Ids(db.eventsAttendedColl) \cup {0}
    IN (CHOOSE m \in ids : \A i \in ids : i <= m) + 1

SingleOps == {"createEvent", "deleteEvent", "createEventType", "deleteEventType",
              "createMember", "deleteMember"}
BatchOps == {"createEvents", "deleteEvents", "createEventTypes", "deleteEventTypes",
             "createMembers", "deleteMembers"}
\* the single call a batch call makes for each item, and the counter it changes
ItemOp(op) ==
    CASE op = "createEvents" -> "createEvent"          [] op = "deleteEvents" -> "deleteEvent"
      [] op = "createEventTypes" -> "createEventType"  [] op = "deleteEventTypes" -> "deleteEventType"
      [] op = "createMembers" -> "createMember"        [] op = "deleteMembers" -> "deleteMember"
ItemCounter(op) ==
    CASE op \in {"createEvent", "deleteEvent"} -> "eventsLeft"
      [] op \in {"createEventType", "deleteEventType"} -> "eventTypesLeft"
      [] op \in {"createMember", "deleteMember"} -> "membersLeft"
ItemSign(op) == IF op \in {"createEvent", "createEventType", "createMember"} THEN -1 ELSE 1
ItemDelta(op, n) ==
    [k \in {"modifyOperationsLeft", ItemCounter(op)} |->
        IF k = "modifyOperationsLeft" THEN -1 ELSE ItemSign(op) * n]

\* ---- the assertions a single call makes on what it read ----
TypeWithId(types, id) == { types[i] : i \in { i \in 1..Len(types) : types[i].id = id } }

\* troupe.syncLock as the call read it
SyncNeverInProgress(seen) == FALSE
SyncInProgress(seen) == seen.syncLock

createEventAsserts(seen, request) ==
    /\ ~SyncInProgress(seen)
    /\ (request.eventTypeId = NoType) # (request.value = NoValue)
    /\ request.eventTypeId # NoType => TypeWithId(seen.eventTypes, request.eventTypeId) # {}
    /\ request.sourceUri \notin { e.sourceUri : e \in seen.eventColl }

deleteEventAsserts(seen, eventId) ==
    /\ eventId \in Ids(seen.eventColl)
    /\ ~SyncInProgress(seen)

createMemberAsserts(seen, request) ==
    /\ ~SyncInProgress(seen)
    /\ \A prop \in PropNames : prop \in DOMAIN request.properties

Asserts(op, seen, request) ==
    CASE op = "createEvent" -> createEventAsserts(seen, request)
      [] op = "deleteEvent" -> deleteEventAsserts(seen, request)
      [] op = "createEventType" -> ValidSourceUris(seen.eventTypes, request)
      [] op = "deleteEventType" -> ~SyncInProgress(seen)
      [] op = "createMember" -> createMemberAsserts(seen, request)
      [] op = "deleteMember" -> TRUE

\* ---- dbUpdate of each single call ----
createEventUpdate(seen, db, request, ignore) ==
    LET eventType == TypeWithId(seen.eventTypes, request.eventTypeId)
        et == CHOOSE t \in eventType : TRUE
        event == [ id             |-> NewObjectId(db),
                   source         |-> request.sourceUri[1],
                   sourceUri      |-> request.sourceUri,
                   startDate      |-> request.startDate,
                   eventTypeId    |-> request.eventTypeId,
                   eventTypeTitle |-> IF eventType = {} THEN <<"title", NoType>> ELSE et.title,
                   value          |-> IF request.value # NoValue THEN request.value ELSE et.value ]
    IN incrementTroupeLimits(ignore, [db EXCEPT !.eventColl = @ \cup {event}],
                             ItemDelta("createEvent", 1))

deleteEventUpdate(seen, db, eventId, ignore) ==
    LET event == CHOOSE e \in seen.eventColl : e.id = eventId
        membersToUpdate == { b.memberId : b \in { b \in seen.eventsAttendedColl :
                                                    eventId \in DOMAIN b.events } }
        audience == { IF m.id \in membersToUpdate
                      THEN [m EXCEPT !.points = [pt \in pointTypes |-> m.points[pt] - event.value]]
                      ELSE m : m \in db.audienceColl }
        buckets == { [b EXCEPT !.events = [id \in DOMAIN b.events \ {eventId} |-> b.events[id]]] :
                       b \in db.eventsAttendedColl }
    IN  IF eventId \notin Ids(db.eventColl) THEN Thrown(db, "ClientError")
        ELSE incrementTroupeLimits(ignore,
                 [db EXCEPT !.audienceColl = audience,
                            !.eventsAttendedColl = buckets,
                            !.eventColl = { e \in @ : e.id # eventId }],
                 ItemDelta("deleteEvent", 1))

createEventTypeUpdate(seen, db, request, ignore) ==
    IF MaxEventTypesReached(db.eventTypes) THEN Thrown(db, "ClientError")
    ELSE incrementTroupeLimits(ignore,
             [db EXCEPT !.eventTypes = Append(@, NewEventType(@, request))],
             ItemDelta("createEventType", 1))

deleteEventTypeUpdate(seen, db, eventTypeId, ignore) ==
    LET unset(b) == UNION { { id \in DOMAIN sb.events : sb.events[id].typeId = eventTypeId } :
                              sb \in { sb \in seen.eventsAttendedColl : sb.id = b.id } }
    IN incrementTroupeLimits(ignore,
          [db EXCEPT !.eventColl = { IF e.eventTypeId = eventTypeId
                                     THEN [e EXCEPT !.eventTypeId = NoType] ELSE e : e \in @ },
                     !.eventsAttendedColl =
                         { [b EXCEPT !.events = [id \in DOMAIN b.events \ unset(b) |-> b.events[id]]] :
                             b \in @ },
                     !.eventTypes = PullEventType(@, eventTypeId)],
          ItemDelta("deleteEventType", 1))

createMemberUpdate(seen, db, request, ignore) ==
    LET member == [ id         |-> NewObjectId(db),
                    properties |-> [prop \in PropNames |->
                                      [value |-> request.properties[prop], override |-> TRUE]],
                    points     |-> [pt \in pointTypes |-> 0] ]
    IN incrementTroupeLimits(ignore, [db EXCEPT !.audienceColl = @ \cup {member}],
                             ItemDelta("createMember", 1))

deleteMemberUpdate(seen, db, memberId, ignore) ==
    IF ~withinTroupeLimits(ignore, seen, ItemDelta("deleteMember", 1))
    THEN Thrown(db, "ClientError")
    ELSE incrementTroupeLimits(ignore,
             [db EXCEPT !.audienceColl = { m \in @ : m.id # memberId },
                        !.eventsAttendedColl = { b \in @ : b.memberId # memberId }],
             ItemDelta("deleteMember", 1))

Update(op, seen, db, request, ignore) ==
    CASE op = "createEvent" -> createEventUpdate(seen, db, request, ignore)
      [] op = "deleteEvent" -> deleteEventUpdate(seen, db, request, ignore)
      [] op = "createEventType" -> createEventTypeUpdate(seen, db, request, ignore)
      [] op = "deleteEventType" -> deleteEventTypeUpdate(seen, db, request, ignore)
      [] op = "createMember" -> createMemberUpdate(seen, db, request, ignore)
      [] op = "deleteMember" -> deleteMemberUpdate(seen, db, request, ignore)

\* ---- the batch calls ----
\* the limit context handed to the single call of each item: deleteMembers
\* hands none to deleteMember
ItemIgnoresLimits(op) == op # "deleteMembers"

\* the batch calls that ask withinTroupeLimits before their transaction
AsksFirst(op) == op \in {"deleteEventTypes", "createMembers", "deleteMembers"}

\* the loop over the items, inside the transaction: each single call reads
\* what the transaction has written so far
RECURSIVE Items(_, _, _, _)
Items(op, db, requests, k) ==
    IF k > Len(requests) THEN Done(db)
    ELSE IF ~Asserts(ItemOp(op), db, requests[k]) THEN Thrown(db, "ClientError")
    ELSE LET one == Update(ItemOp(op), db, db, requests[k], ItemIgnoresLimits(op))
         IN IF one.ok THEN Items(op, one.db, requests, k + 1) ELSE one

Batch(op, db, requests) ==
    IF AsksFirst(op) /\ ~WithinLimits(db.limits, ItemDelta(ItemOp(op), Len(requests)))
    THEN Thrown(db, "ClientError")
    ELSE LET items == Items(op, db, requests, 1)
         IN IF items.ok
            THEN incrementTroupeLimits(FALSE, items.db, ItemDelta(ItemOp(op), Len(requests)))
            ELSE items

\* ---- the steps of a call ----
Stored(db) ==
    /\ eventTypes' = db.eventTypes
    /\ eventColl' = db.eventColl
    /\ audienceColl' = db.audienceColl
    /\ eventsAttendedColl' = db.eventsAttendedColl
    /\ limits' = db.limits

Returned(a, op, request, result) ==
    calls' = [calls EXCEPT ![a] = [op |-> op, pc |-> "returned", request |-> request,
                                   seen |-> << >>, result |-> result]]

\* a single call reads and runs its assertions
BeginCall(a, op, request) ==
    /\ calls[a].pc = "idle"
    /\ IF Asserts(op, Db, request)
       THEN calls' = [calls EXCEPT ![a] = [op |-> op, pc |-> "dbUpdate", request |-> request,
                                           seen |-> Db, result |-> ""]]
       ELSE Returned(a, op, request, "ClientError")
    /\ UNCHANGED <<storageVars, discVars, external, syncQueue>>

\* its transaction
dbUpdate(a) ==
    /\ calls[a].pc = "dbUpdate"
    /\ LET updated == Update(calls[a].op, calls[a].seen, Db, calls[a].request, FALSE)
       IN  /\ Stored(IF updated.ok THEN updated.db ELSE Db)
           /\ Returned(a, calls[a].op, calls[a].request,
                       IF updated.ok THEN "ok" ELSE updated.error)
    /\ UNCHANGED <<syncLock, dashboard, discVars, external, syncQueue>>

\* a batch call: one transaction
BatchCall(a, op, requests) ==
    /\ calls[a].pc = "idle"
    /\ LET updated == Batch(op, Db, requests)
       IN  /\ Stored(IF updated.ok THEN updated.db ELSE Db)
           /\ Returned(a, op, requests, IF updated.ok THEN "ok" ELSE updated.error)
    /\ UNCHANGED <<syncLock, dashboard, discVars, external, syncQueue>>

\* ---- what the calls may be given ----
CreateEventRequests ==
    { [sourceUri |-> u, startDate |-> 1, eventTypeId |-> t,
       value |-> IF t = NoType THEN 5 ELSE NoValue] :
        u \in FileUris, t \in {NoType, 1} }

CreateMemberRequests ==
    { [properties |-> [prop \in PropNames |-> IF prop = "Middle Name" THEN NoValue ELSE 1]],
      [properties |-> [prop \in PropNames \ {"First Name"} |-> 1]] }

Requests(op) ==
    CASE op = "createEvent" -> CreateEventRequests
      [] op = "deleteEvent" -> Ids(eventColl) \cup {NewObjectId(Db)}
      [] op = "createEventType" -> CreateEventTypeRequests
      [] op = "deleteEventType" -> TypeIdsOf(eventTypes)
      [] op = "createMember" -> CreateMemberRequests
      [] op = "deleteMember" -> Ids(audienceColl) \cup {NewObjectId(Db)}

BatchRequests(op) ==
    { requests \in SeqsUpTo(Requests(ItemOp(op)), MaxBatch) : Len(requests) > 0 }

CallLimits(manualSyncsLeft) ==
    [ eventsLeft |-> MaxBatch, sourceFolderUrisLeft |-> MaxQuota, membersLeft |-> MaxBatch,
      modifyOperationsLeft |-> MaxOps, eventTypesLeft |-> MaxTypesLeft,
      manualSyncsLeft |-> manualSyncsLeft ]

\* a troupe with an event, a member that attended it, or neither; a sync
\* may hold the lock
InitCalls ==
    \E locked \in BOOLEAN, withEvent \in BOOLEAN, withMember \in BOOLEAN :
        LET events == IF withEvent THEN { e \in StoredEvents(1) : e.eventTypeId # NoType } ELSE {}
            members == IF withMember THEN {StoredMember(1, 1, FALSE)} ELSE {}
            buckets == IF withMember THEN {StoredBucket(1, 0, events, Ids(events))} ELSE {}
        IN  /\ syncLock = locked
            /\ eventTypes = OneFolderTypes
            /\ eventColl = events
            /\ audienceColl = members
            /\ eventsAttendedColl = buckets
            /\ limits = CallLimits(MaxQuota)
            /\ dashboard = NewDashboard(OneFolderTypes, members, events)
            /\ sync = [p \in Procs |-> Unstarted]
            /\ dpc = [p \in Procs |-> "idle"]
            /\ seedIdx = [p \in Procs |-> 1]
            /\ external = NothingAsked(FALSE)
            /\ NoApi
            /\ NoLog

NextCalls ==
    \E a \in ApiCalls :
        \/ \E op \in SingleOps : \E request \in Requests(op) : BeginCall(a, op, request)
        \/ dbUpdate(a)
        \/ \E op \in BatchOps : \E requests \in BatchRequests(op) : BatchCall(a, op, requests)

SpecCalls == InitCalls /\ [][NextCalls]_vars

(***************************************************************************)
(* A crash of the process that runs a sync() call: the call takes no       *)
(* further step, and nothing it wrote is undone.                           *)
(***************************************************************************)
CrashStep(p) ==
    /\ dpc[p] \in InFlight
    /\ dpc' = [dpc EXCEPT ![p] = "crashed"]
    /\ UNCHANGED <<apiVars, logVars, external, sync, seedIdx, storageVars>>

\* sync() calls that may overlap, each of which may crash once it holds the
\* lock, on a troupe whose form has already been discovered and whose
\* quotas are used up
InitCrash ==
    /\ LET events == { e \in StoredEvents(1) : e.eventTypeId # NoType }
       IN InitStorage(OneFolderTypes, events, {}, {}, FullLimits(0))
    /\ sync = [p \in Procs |-> Unstarted]
    /\ dpc = [p \in Procs |-> "check"]
    /\ seedIdx = [p \in Procs |-> 1]
    /\ external = NothingAsked(FALSE)
    /\ NoApi
    /\ NoLog

NextCrash ==
    \E p \in Procs :
        \/ CheckStep(p) \/ LockStep(p) \/ LoadStep(p) \/ ReadEvents(p)
        \/ SeedStep(p) \/ SeedDone(p) \/ ExploreStep(p) \/ DiscoverDone(p)
        \/ AudienceInit(p) \/ RunDelegate(p) \/ MarkStep(p)
        \/ PlanStep(p) \/ WriteDashboard(p) \/ WriteEvents(p) \/ WriteAudience(p)
        \/ DeleteMembers(p) \/ WriteBuckets(p) \/ DeleteBuckets(p) \/ IncrementStep(p)
        \/ PublishStep(p) \/ CatchStep(p) \/ UnlockStep(p)
        \/ CrashStep(p)
SpecCrash == InitCrash /\ [][NextCrash]_vars

(***************************************************************************)
(* initiateSync: the whole callback runs inside one transaction; the       *)
(* request handed to the sync queue is not part of it.  Two transactions   *)
(* that write the limits of the troupe do not overlap: the later one meets *)
(* a write conflict and runs again after the earlier one has ended.        *)
(***************************************************************************)
\* addToSyncQueue({ troupeId })
addToSyncQueue(queue) == queue + 1

\* the callback: the limits as the transaction has them, not yet committed
initiateSyncCallback(db) ==
    LET updated == incrementTroupeLimits(FALSE, db, [manualSyncsLeft |-> -1])
    IN  IF ~updated.ok THEN updated
        ELSE IF updated.db.syncLock THEN Thrown(db, "ClientError")
        ELSE updated

initiateSync(a) ==
    /\ calls[a].pc = "idle"
    /\ \A b \in ApiCalls : calls[b].pc # "commitTransaction"
    /\ LET updated == initiateSyncCallback(Db)
       IN  IF updated.ok
           THEN /\ syncQueue' = addToSyncQueue(syncQueue)
                /\ calls' = [calls EXCEPT ![a] =
                       [op |-> "initiateSync", pc |-> "commitTransaction", request |-> << >>,
                        seen |-> [limits |-> limits, syncQueue |-> syncQueue], result |-> ""]]
           ELSE /\ syncQueue' = syncQueue
                /\ calls' = [calls EXCEPT ![a] =
                       [op |-> "initiateSync", pc |-> "returned", request |-> << >>,
                        seen |-> [limits |-> limits, syncQueue |-> syncQueue],
                        result |-> updated.error]]
    /\ UNCHANGED <<storageVars, discVars, external>>

\* the transaction commits: the decrement is stored
commitTransaction(a) ==
    /\ calls[a].pc = "commitTransaction"
    /\ Stored(initiateSyncCallback(Db).db)
    /\ calls' = [calls EXCEPT ![a].pc = "returned", ![a].result = "ok"]
    /\ UNCHANGED <<syncLock, dashboard, discVars, external, syncQueue>>

\* the commit fails: the transaction is aborted and the call rejects
abortTransaction(a) ==
    /\ calls[a].pc = "commitTransaction"
    /\ calls' = [calls EXCEPT ![a].pc = "returned", ![a].result = "MongoError"]
    /\ UNCHANGED <<storageVars, discVars, external, syncQueue>>

InitInitiate ==
    \E locked \in BOOLEAN, left \in 0..MaxSyncsLeft, withEvent \in BOOLEAN, withMember \in BOOLEAN :
        LET events == IF withEvent THEN { e \in StoredEvents(1) : e.eventTypeId # NoType } ELSE {}
            members == IF withMember THEN {StoredMember(1, 1, FALSE)} ELSE {}
            buckets == IF withMember THEN {StoredBucket(1, 0, events, Ids(events))} ELSE {}
        IN  /\ syncLock = locked
            /\ eventTypes = OneFolderTypes
            /\ eventColl = events
            /\ audienceColl = members
            /\ eventsAttendedColl = buckets
            /\ limits = CallLimits(left)
            /\ dashboard = NewDashboard(OneFolderTypes, members, events)
            /\ sync = [p \in Procs |-> Unstarted]
            /\ dpc = [p \in Procs |-> "idle"]
            /\ seedIdx = [p \in Procs |-> 1]
            /\ external = NothingAsked(FALSE)
            /\ NoApi
            /\ NoLog

NextInitiate ==
    \E a \in ApiCalls :
        \/ initiateSync(a)
        \/ commitTransaction(a)
        \/ abortTransaction(a)

SpecInitiate == InitInitiate /\ [][NextInitiate]_vars

(***************************************************************************)
(* TroupeLogService.validateParams.  An argument that is not given is not  *)
(* a field of args; "" is the empty string.                                *)
(***************************************************************************)
\* validateLogUri, abstract in TroupeLogService: one URI names a log sheet
validateLogUri(uri) == uri = "sheet"

\* events.every((event, i) => i == events.length - 1 || ...)
eventsSorted(events) ==
    \A i \in DOMAIN events :
        IF i = Len(events) THEN TRUE ELSE events[i].startDate <= events[i + 1].startDate
audienceSorted(audience) ==
    \A i \in DOMAIN audience :
        IF i = Len(audience) THEN TRUE
        ELSE audience[i].points["Total"] <= audience[i + 1].points["Total"]

validateParams(args) ==
    LET given == IF "uri" \in DOMAIN args THEN args.uri ELSE ""
        uri == IF given # "" THEN given
               ELSE IF "troupe" \in DOMAIN args THEN args.troupe.logSheetUri ELSE ""
    IN  IF uri = "" \/ ~validateLogUri(uri) THEN FALSE
        ELSE IF "events" \in DOMAIN args /\ ~eventsSorted(args.events) THEN FALSE
        ELSE IF "audience" \in DOMAIN args /\ ~audienceSorted(args.audience) THEN FALSE
        ELSE TRUE

\* validateParams is synchronous: one call at a time
validateParamsCall(a, args) ==
    /\ \A b \in ApiCalls : calls[b].pc = "idle"
    /\ Returned(a, "validateParams", args, IF validateParams(args) THEN "true" ELSE "false")
    /\ UNCHANGED <<storageVars, discVars, external, syncQueue>>

\* ---- what validateParams may be given: documents of the troupe, in any order ----
Lists(S) == UNION { Orders(T) : T \in SUBSET S }
Optional(name, values) == { << >> } \cup { name :> v : v \in values }
LogUris == {"", "bad", "sheet"}
ValidateArgs(events, audience) ==
    { uri @@ troupe @@ es @@ as :
        uri \in Optional("uri", LogUris),
        troupe \in Optional("troupe", { [logSheetUri |-> u] : u \in LogUris \ {""} }),
        es \in Optional("events", Lists(events)),
        as \in Optional("audience", Lists(audience)) }

LogEvent(i, date) == [PagingEvent(i) EXCEPT !.startDate = date]
LogMember(key, total) ==
    [StoredMember(key, 1, FALSE) EXCEPT !.points = [pt \in pointTypes |-> total]]

\* a sync() call that has persisted MaxLogEvents events and NumMembers
\* members, of any start dates and totals, and is about to refresh the log
InitLog ==
    \E dates \in [1..MaxLogEvents -> 1..MaxDate], totals \in [Mids -> 0..MaxTotal] :
        LET events == { LogEvent(i, dates[i]) : i \in 1..MaxLogEvents }
            members == { LogMember(key, totals[key]) : key \in Mids }
            st == NewSyncTroupe(NoFolderTypes, events, FullLimits(MaxQuota), FirstOid)
            attendees == [ key \in Mids |->
                             [ member |-> LogMember(key, totals[key]), eventsAttended |-> <<>>,
                               eventsAttendedDocs |-> <<>>, delete |-> FALSE, fromColl |-> TRUE ] ]
        IN  /\ syncLock = TRUE
            /\ eventTypes = NoFolderTypes
            /\ eventColl = events
            /\ audienceColl = members
            /\ eventsAttendedColl = {}
            /\ limits = FullLimits(MaxQuota)
            /\ dashboard = NewDashboard(NoFolderTypes, members, events)
            /\ Stepping([st EXCEPT !.attendeeMap = attendees], "persisted")

NextLog ==
    \/ \E p \in Procs : PublishStep(p) \/ PublishFails(p) \/ CatchStep(p) \/ UnlockStep(p)
    \/ \E a \in ApiCalls : \E args \in ValidateArgs(eventColl, audienceColl) :
          validateParamsCall(a, args)
SpecLog == InitLog /\ [][NextLog]_vars

(***************************************************************************)
(* getEvents and getAudience.  Here the stored documents carry the         *)
(* troupeId they belong to.                                                *)
(***************************************************************************)
Troupes == {"A", "B"}

\* find({ troupeId }), and a find with no filter
findAll(coll, troupeId) == coll
find(coll, troupeId) == { d \in coll : d.troupeId = troupeId }

\* toArray(): the documents in the order of their ids
toArray(docs) ==
    [i \in 1..Cardinality(docs) |->
        CHOOSE d \in docs : Cardinality({ x \in docs : x.id < d.id }) = i - 1]

toHexString(id) == <<"hex", id>>

\* toPublicEvent and toMember: the document without _id and troupeId, with
\* the id it is given
toPublicEvent(eventObj, id) ==
    [f \in (DOMAIN eventObj \ {"troupeId"}) |-> IF f = "id" THEN id ELSE eventObj[f]]
toMember(memberObj, id) ==
    [f \in (DOMAIN memberObj \ {"troupeId"}) |-> IF f = "id" THEN id ELSE memberObj[f]]

getEvents(a, troupeId) ==
    /\ calls[a].pc = "idle"
    /\ LET events == toArray(find(eventColl, troupeId))
           parsedEvents == [i \in DOMAIN events |-> toPublicEvent(events[i], toHexString(events[i].id))]
       IN Returned(a, "getEvents", troupeId, parsedEvents)
    /\ UNCHANGED <<storageVars, discVars, external, syncQueue>>

getAudience(a, troupeId) ==
    /\ calls[a].pc = "idle"
    /\ LET audience == toArray(find(audienceColl, troupeId))
           newAudience == [i \in DOMAIN audience |-> toMember(audience[i], toHexString(audience[i].id))]
       IN Returned(a, "getAudience", troupeId, newAudience)
    /\ UNCHANGED <<storageVars, discVars, external, syncQueue>>

GetEvent(i, troupeId) == PagingEvent(i) @@ [troupeId |-> troupeId]
GetMember(key, troupeId) ==
    [StoredMember(key, 1, FALSE) EXCEPT !.id = MaxStoredRecords + key] @@ [troupeId |-> troupeId]

\* the default configuration of the tests: 7 events and 5 members for troupe
\* A; troupe B is given 2 events and 1 member
defaultConfig ==
    [ events   |-> { GetEvent(i, IF i <= 7 THEN "A" ELSE "B") : i \in 1..9 },
      audience |-> { GetMember(key, IF key <= 5 THEN "A" ELSE "B") : key \in 1..6 } ]

\* the default configuration, or MaxGetEvents events and MaxGetMembers
\* members shared out among the troupes in any way
InitGet ==
    /\ \/ /\ eventColl = defaultConfig.events
          /\ audienceColl = defaultConfig.audience
       \/ \E et \in [1..MaxGetEvents -> Troupes], mt \in [1..MaxGetMembers -> Troupes] :
             /\ eventColl = { GetEvent(i, et[i]) : i \in 1..MaxGetEvents }
             /\ audienceColl = { GetMember(key, mt[key]) : key \in 1..MaxGetMembers }
    /\ syncLock = FALSE
    /\ eventTypes = NoFolderTypes
    /\ eventsAttendedColl = {}
    /\ limits = FullLimits(MaxQuota)
    /\ dashboard = NewDashboard(NoFolderTypes, {}, {})
    /\ Stepping(Unstarted, "idle")

NextGet ==
    \E a \in ApiCalls : \E troupeId \in Troupes :
        \/ getEvents(a, troupeId)
        \/ getAudience(a, troupeId)
SpecGet == InitGet /\ [][NextGet]_vars

(***************************************************************************)
(* Claims about the dashboard statistics.                                  *)
(***************************************************************************)
\* C14: for every event type of the stored dashboard, the average is 0 when
\* the type has no event and is otherwise the quotient of the type's total
\* attendees by its total events rounded to the nearest integer (halves
\* up); a type with no event has event and attendee shares of 0.
C14_DashboardAverages ==
    \A t \in DOMAIN dashboard.avgAttendeesByEventType :
        LET attendees == dashboard.totalAttendeesByEventType[t]
            events == dashboard.totalEventsByEventType[t]
            avg == dashboard.avgAttendeesByEventType[t]
        IN  /\ events = 0 =>
                  /\ avg = 0
                  /\ dashboard.eventPercentageByEventType[t].num = 0
                  /\ dashboard.attendeePercentageByEventType[t].num = 0
            /\ events > 0 =>
                  /\ 2 * events * avg <= 2 * attendees + events
                  /\ 2 * attendees + events < 2 * events * (avg + 1)

\* C14 witness: a sync has stored an average that was rounded up from a
\* half (1 attendee over 2 events) and a type without events.
C14_RoundedHalf ==
    /\ \E p \in Procs : dpc[p] = "persisted"
    /\ \E t \in DOMAIN dashboard.avgAttendeesByEventType :
          /\ dashboard.totalEventsByEventType[t] = 2
          /\ dashboard.totalAttendeesByEventType[t] = 1
          /\ dashboard.avgAttendeesByEventType[t] = 1
    /\ \E t \in DOMAIN dashboard.avgAttendeesByEventType :
          dashboard.totalEventsByEventType[t] = 0

\* the attendance records written by the run, over all event types and none
RecordsWritten(st) == RecordsPaged(st, SortedSeq(DOMAIN st.attendeeMap), 1, NoType)

\* C15: after a sync, for every event type the attendee share is the
\* type's total attendees over the troupe's total attendees when that total
\* is positive, the event share is the type's total events over the
\* troupe's total events when that total is positive, and a share is 0 when
\* its total is 0.
C15_DashboardShares ==
    \A p \in Procs :
        dpc[p] = "persisted" =>
            \A t \in DOMAIN dashboard.avgAttendeesByEventType :
                LET attendees == dashboard.totalAttendeesByEventType[t]
                    events == dashboard.totalEventsByEventType[t]
                    attendeeShare == dashboard.attendeePercentageByEventType[t]
                    eventShare == dashboard.eventPercentageByEventType[t]
                    allAttendees == RecordsWritten(sync[p])
                    allEvents == dashboard.totalEvents
                IN  /\ allAttendees > 0 =>
                          attendeeShare.num * allAttendees = attendees * attendeeShare.den
                    /\ allAttendees = 0 => attendeeShare.num = 0
                    /\ allEvents > 0 => eventShare.num * allEvents = events * eventShare.den
                    /\ allEvents = 0 => eventShare.num = 0

(***************************************************************************)
(* Claims about discoverEvents.                                            *)
(***************************************************************************)
\* the child folders that the listing of folder f held
ChildFolders(f) ==
    IF external.listings[f].ok
    THEN { c \in Folders \ {f} : FolderEntry(c) \in Range(external.listings[f].files) }
    ELSE {}

\* C16: once discovery is over, every child folder held by the listing of
\* an explored folder has itself been listed, provided the folder quota of
\* the limits snapshot was not exhausted.
C16_NestedFolders ==
    \A p \in Procs :
        (dpc[p] = "audience" /\ sync[p].currentLimits.sourceFolderUrisLeft > 0) =>
            \A f \in Range(sync[p].discoveredFolders) :
                \A c \in ChildFolders(f) : c \in external.listed

\* C17: discoverEvents never raises, whatever listings fail.
C17_ListingFailureIsolated ==
    \A p \in Procs : ~(dpc[p] = "failed" /\ sync[p].failedIn = "discoverEvents")

\* the recognized files that the listing of folder f held, as source URIs
ListedUris(f) ==
    IF external.listings[f].ok
    THEN { getDataSourceUrl(EVENT_DATA_SOURCES[MimeIndex(FileMime(k))], k) :
             k \in { k \in Files : FileEntry(k) \in Range(external.listings[f].files) } }
    ELSE {}

\* C18: no step changes an event of the accumulated event set that has an
\* event-type linkage: its eventTypeId, event-type title and point value
\* stay as they are.
C18_BackfillNeverOverwrites ==
    [][ \A p \in Procs :
          \A u \in DOMAIN sync[p].eventMap :
              sync[p].eventMap[u].event.eventTypeId # NoType =>
                  /\ u \in DOMAIN sync'[p].eventMap
                  /\ sync'[p].eventMap[u].event = sync[p].eventMap[u].event ]_vars

\* C18 witness: a stored event linked to one event type was listed in an
\* explored folder owned by another event type and is still as stored.
C18_LinkedEventRediscovered ==
    \E p \in Procs : \E e \in eventColl : \E f \in Range(sync[p].discoveredFolders) :
        /\ e.eventTypeId # NoType
        /\ e.sourceUri \in ListedUris(f)
        /\ sync[p].folderToEventTypeMap[f] # NoType
        /\ sync[p].eventTypes[sync[p].folderToEventTypeMap[f]].id # e.eventTypeId
        /\ sync[p].eventMap[e.sourceUri].event = e

\* C19: the limits are not changed by a call before its commit step, and
\* the increment a call brings to the commit step is never refused by the
\* limits, no other operation having consumed quota meanwhile.
C19_IncrementNeverRefused ==
    \A p \in Procs :
        /\ dpc[p] \in {"seed", "explore", "audience", "delegates", "persist"} =>
               limits = sync[p].currentLimits
        /\ dpc[p] = "incrementLimits" => WithinLimits(limits, sync[p].incrementLimits)

(***************************************************************************)
(* Claims about the event type calls.                                      *)
(***************************************************************************)
\* C20: whatever createEventType, createEventTypes and deleteEventType
\* calls are made, the troupe has at most MAX_EVENT_TYPES event types.
C20_MaxEventTypes == Len(eventTypes) <= MAX_EVENT_TYPES

(***************************************************************************)
(* Claims about the API calls.                                             *)
(***************************************************************************)
\* the places (event type, position) where a source folder URI is declared
Owners(uri) ==
    { <<i, j>> \in (1..Len(eventTypes)) \X (1..NumFolders) :
        j <= Len(eventTypes[i].sourceFolderUris) /\ eventTypes[i].sourceFolderUris[j] = uri }

\* C21: every source folder is in the folder list of at most one event
\* type, and at most once in it.
C21_FolderOwnedOnce ==
    \A f \in Folders : Cardinality(Owners(FolderUrl(f))) <= 1

\* C22: no two stored events have the same source URI.
C22_SourceUriUnique ==
    \A e1, e2 \in eventColl : e1.sourceUri = e2.sourceUri => e1 = e2

\* C23: a batch call that succeeds on N items changes the items' counter
\* by N in all (down for a creation, up for a deletion) and
\* modifyOperationsLeft by minus 1.
C23_BatchAccounting ==
    [][ \A a \in ApiCalls :
          (calls[a].pc = "idle" /\ calls'[a].pc = "returned" /\ calls'[a].op \in BatchOps
             /\ calls'[a].result = "ok") =>
              LET counter == ItemCounter(ItemOp(calls'[a].op))
                  n == Len(calls'[a].request)
              IN  /\ limits'[counter] - limits[counter] = ItemSign(ItemOp(calls'[a].op)) * n
                  /\ limits'.modifyOperationsLeft = limits.modifyOperationsLeft - 1 ]_vars

LockedOps == {"createEvent", "deleteEvent", "deleteEventType", "createMember"}

\* C24: a createEvent, deleteEvent, deleteEventType or createMember call
\* made while the sync lock is held returns a client error at once, and the
\* step changes no event, member, bucket, event type or limit.
C24_LockedCallsFail ==
    [][ \A a \in ApiCalls :
          (syncLock /\ calls[a].pc = "idle" /\ calls'[a].op \in LockedOps) =>
              /\ calls'[a].pc = "returned"
              /\ calls'[a].result = "ClientError"
              /\ UNCHANGED <<eventColl, audienceColl, eventsAttendedColl, eventTypes, limits>> ]_vars

\* C24 witness: under a held lock, a createEvent call and a createMember
\* call that lack nothing else have returned a client error.
C24_RefusedUnderLock ==
    /\ syncLock
    /\ \E a, b \in ApiCalls :
          /\ calls[a].op = "createEvent" /\ calls[a].result = "ClientError"
          /\ calls[a].request.sourceUri \notin { e.sourceUri : e \in eventColl }
          /\ calls[b].op = "createMember" /\ calls[b].result = "ClientError"
          /\ DOMAIN calls[b].request.properties = PropNames

InitiateEnds(a) ==
    calls'[a].op = "initiateSync" /\ calls[a].pc # "returned" /\ calls'[a].pc = "returned"
\* the limits and the queue when call a was made
AtCall(a) ==
    IF calls[a].pc = "idle" THEN [limits |-> limits, syncQueue |-> syncQueue] ELSE calls[a].seen

\* C25: an initiateSync call either takes exactly 1 from manualSyncsLeft and
\* queues exactly one request, or fails with manualSyncsLeft and the queue
\* as they were; it fails when manualSyncsLeft is 0 or the lock is held.
C25_SyncAllOrNothing ==
    [][ \A a \in ApiCalls : InitiateEnds(a) =>
          LET was == AtCall(a)
          IN  /\ (was.limits.manualSyncsLeft = 0 \/ syncLock) => calls'[a].result # "ok"
              /\ IF calls'[a].result = "ok"
                 THEN /\ limits'.manualSyncsLeft = was.limits.manualSyncsLeft - 1
                      /\ syncQueue' = was.syncQueue + 1
                 ELSE /\ limits'.manualSyncsLeft = was.limits.manualSyncsLeft
                      /\ syncQueue' = was.syncQueue ]_vars

\* the writes persistSync planned are in storage
Committed(p) ==
    LET plan == sync[p].plan
    IN  /\ dashboard = plan.dashboardUpdate
        /\ eventColl = Upsert(eventColl, plan.updateEvents)
        /\ audienceColl = DeleteMany(Upsert(audienceColl, plan.updateAudience), plan.membersToDelete)
        /\ eventsAttendedColl = DeleteMany(Upsert(eventsAttendedColl, plan.updateEventsAttended),
                                           plan.eventsAttendedToDelete)

\* C26: a sync invokes the record publisher at most once, only when its
\* persistence has gone through without a failure and skipLogPublish was not
\* passed; once the publisher has failed the stored data stays as committed
\* and the call ends with the lock released.
C26_PublishAfterCommit ==
    [][ \A p \in Procs :
          /\ Len(updateLog'[p]) <= 1
          /\ updateLog'[p] # updateLog[p] =>
                /\ ~skipLogPublish[p]
                /\ sync[p].failedIn = ""
                /\ sync[p].plan # << >>
                /\ Committed(p)
          /\ sync[p].failedIn = "refreshLogSheet" =>
                /\ UNCHANGED <<eventTypes, eventColl, audienceColl, eventsAttendedColl,
                               limits, dashboard>>
                /\ Committed(p)
                /\ dpc'[p] \in {"returned", "raised"} => (~syncLock' /\ dpc'[p] = "returned") ]_vars

\* C26 witness: the publisher failed after a commit that stored an event; the
\* call has returned, the event is stored and the lock is released.
C26_PublisherFailedAfterCommit ==
    \E p \in Procs :
        /\ sync[p].failedIn = "refreshLogSheet"
        /\ Len(updateLog[p]) = 1
        /\ dpc[p] = "returned"
        /\ sync[p].plan.updateEvents # {}
        /\ Committed(p)
        /\ ~syncLock

NonDecreasing(seq) == \A i, j \in DOMAIN seq : i < j => seq[i] <= seq[j]
StartDates(events) == [i \in DOMAIN events |-> events[i].startDate]
Totals(audience) == [i \in DOMAIN audience |-> audience[i].points["Total"]]

\* C27: the lists refreshLogSheet hands to the publisher are in non-decreasing
\* order of start date and of "Total" points, so validateParams accepts them
\* with a valid log URI; and validateParams returns true only for a valid log
\* URI, events in non-decreasing start date and an audience in non-decreasing
\* "Total" points.
C27_PublishedListsSorted ==
    /\ \A p \in Procs : \A i \in DOMAIN updateLog[p] :
          /\ NonDecreasing(StartDates(updateLog[p][i].events))
          /\ NonDecreasing(Totals(updateLog[p][i].audience))
          /\ validateParams([uri |-> "sheet", events |-> updateLog[p][i].events,
                             audience |-> updateLog[p][i].audience])
    /\ \A a \in ApiCalls :
          (calls[a].op = "validateParams" /\ calls[a].result = "true") =>
              LET args == calls[a].request
                  named == IF "uri" \in DOMAIN args /\ args.uri # "" THEN {args.uri}
                           ELSE IF "troupe" \in DOMAIN args THEN {args.troupe.logSheetUri}
                           ELSE {}
              IN  /\ named = {"sheet"}
                  /\ "events" \in DOMAIN args => NonDecreasing(StartDates(args.events))
                  /\ "audience" \in DOMAIN args => NonDecreasing(Totals(args.audience))

\* C27 witness: events of different start dates and members of different
\* totals were handed to the publisher, and validateParams has returned true
\* for a list of all the events and a list of all the members.
C27_ListsPublished ==
    /\ \E p \in Procs :
          /\ Len(updateLog[p]) = 1
          /\ Cardinality(Range(StartDates(updateLog[p][1].events))) > 1
          /\ Len(updateLog[p][1].events) = MaxLogEvents
          /\ Cardinality(Range(Totals(updateLog[p][1].audience))) > 1
    /\ \E a \in ApiCalls :
          /\ calls[a].op = "validateParams" /\ calls[a].result = "true"
          /\ DOMAIN calls[a].request = {"uri", "troupe", "events", "audience"}
          /\ Len(calls[a].request.events) = MaxLogEvents
          /\ Len(calls[a].request.audience) = NumMembers

\* C28: when the audience is initialised, before any delegate runs, every
\* stored member has each point total at zero and, for every property other
\* than its Member ID, the stored value where the override flag is set and no
\* value where it is not.
C28_AudienceInitialised ==
    [][ \A p \in Procs :
          (dpc[p] = "audience" /\ dpc'[p] = "delegates") =>
              \A m \in audienceColl :
                  LET member == sync'[p].attendeeMap[MemberKey(m)].member
                  IN  /\ \A pt \in pointTypes : member.points[pt] = 0
                      /\ \A prop \in PropNames \ {"Member ID"} :
                            member.properties[prop].value =
                                IF m.properties[prop].override THEN m.properties[prop].value
                                ELSE NoValue ]_vars

\* C29: once a sync has persisted, a member that was stored before it, has
\* no overridden property and was found in no event source is stored no
\* more, and neither is any of its attendance buckets.
C29_AbsentMemberDeleted ==
    \A p \in Procs :
        dpc[p] = "persisted" =>
            \A key \in DOMAIN sync[p].attendeeMap :
                LET data == sync[p].attendeeMap[key]
                IN  ( /\ data.fromColl
                      /\ data.eventsAttended = <<>>
                      /\ \A prop \in PropNames : ~data.member.properties[prop].override ) =>
                        /\ data.member.id \notin Ids(audienceColl)
                        /\ \A b \in eventsAttendedColl : b.memberId # data.member.id

\* C30: no step of a sync removes an event: every stored event is stored
\* after the step with the same id and the same source URI.
C30_EventsNeverDeleted ==
    [][ \A e \in eventColl :
          \E kept \in eventColl' : kept.id = e.id /\ kept.sourceUri = e.sourceUri ]_vars

\* C30 witness: a sync has returned whose listings, none of them rejected,
\* held no file of a stored event, and the event is still stored.
C30_UnlistedEventKept ==
    /\ dpc[1] = "returned"
    /\ sync[1].failedIn = ""
    /\ external.listed # {}
    /\ \A f \in external.listed : external.listings[f].ok
    /\ \E e \in eventColl :
          /\ e.id \in Files
          /\ e.sourceUri \notin UNION { ListedUris(f) : f \in external.listed }

\* what persistSync is to store of the members, by Member ID: who they are,
\* their point totals, their buckets with page and records, the quota delta
Persisted(st) ==
    LET plan == PersistPlan(st)
    IN  [ members |-> { MemberKey(m) : m \in plan.updateAudience },
          points  |-> { <<MemberKey(m), m.points>> : m \in plan.updateAudience },
          buckets |-> UNION { { <<MemberKey(m), b.page, b.events>> :
                                  b \in { d \in plan.updateEventsAttended : d.memberId = m.id } } :
                              m \in plan.updateAudience },
          delta   |-> st.incrementLimits.membersLeft ]

\* the delegates of the events `uris` run one after the other in one fixed order
RECURSIVE InFixedOrder(_, _)
InFixedOrder(st, uris) ==
    IF uris = {} THEN st
    ELSE LET u == CHOOSE x \in uris : TRUE
         IN InFixedOrder(MergeResponses(st, st.eventMap[u].event, external.responses[u], 1),
                         uris \ {u})

\* C31: when every delegate of a sync has succeeded, what the sync is about
\* to persist of the members (who they are, their totals, their buckets and
\* pages, the quota delta) is what the delegates give when run in one fixed
\* order, whatever the order they completed in.
C31_DelegateOrder ==
    \A p \in Procs :
        (dpc[p] = "persist" /\ sync[p].plan = << >>) =>
            LET start == [sync[p] EXCEPT
                            !.attendeeMap = InitialAttendeeMap(audienceColl, eventsAttendedColl),
                            !.incrementLimits.membersLeft = 0]
                delegates == { u \in DOMAIN sync[p].eventMap : HasDelegate(sync[p].eventMap[u].event) }
            IN Persisted(sync[p]) = Persisted(MarkMembers(InFixedOrder(start, delegates)))

\* the documents of `coll` that belong to the troupe
OfTroupe(coll, troupeId) == { d \in coll : d.troupeId = troupeId }
\* every document of docs is returned once in `returned`, and nothing else is
OnePerDocument(returned, docs) ==
    /\ Len(returned) = Cardinality(docs)
    /\ \A d \in docs : Cardinality({ i \in DOMAIN returned : returned[i].id = toHexString(d.id) }) = 1
    /\ \A i \in DOMAIN returned : \E d \in docs : returned[i].id = toHexString(d.id)

\* C32: getEvents(t) returns one public event for each stored event of
\* troupe t and nothing else, getAudience(t) one member for each stored
\* member of troupe t and nothing else; under the default configuration they
\* return 7 events and 5 members for troupe A.
C32_ReadsOwnTroupe ==
    \A a \in ApiCalls :
        /\ calls[a].op = "getEvents" =>
              /\ OnePerDocument(calls[a].result, OfTroupe(eventColl, calls[a].request))
              /\ (eventColl = defaultConfig.events /\ calls[a].request = "A") =>
                    Len(calls[a].result) = 7
        /\ calls[a].op = "getAudience" =>
              /\ OnePerDocument(calls[a].result, OfTroupe(audienceColl, calls[a].request))
              /\ (audienceColl = defaultConfig.audience /\ calls[a].request = "A") =>
                    Len(calls[a].result) = 5

\* C32 witness: under the default configuration, which holds documents of
\* troupe B too, getEvents and getAudience have answered for troupe A.
C32_DefaultConfigRead ==
    /\ eventColl = defaultConfig.events
    /\ OfTroupe(eventColl, "B") # {} /\ OfTroupe(audienceColl, "B") # {}
    /\ \E a, b \in ApiCalls :
          /\ calls[a].op = "getEvents" /\ calls[a].request = "A" /\ Len(calls[a].result) = 7
          /\ calls[b].op = "getAudience" /\ calls[b].request = "A" /\ Len(calls[b].result) = 5

(***************************************************************************)
(* persistSync: the upcoming birthdays of the dashboard.  Dates are counted *)
(* in days; NoValue is a birthday that is not set.                          *)
(***************************************************************************)
FULL_DAY == 1
FirstNow == 40
Frequencies == {"weekly", "monthly"}
\* what Date.now() may answer
Nows == {FirstNow, FirstNow + 1}
\* birthdays around the two cutoffs
BirthdayValues ==
    {NoValue} \cup { FirstNow + d : d \in {-1, 0, 1, 6, 7, 8, 29, 30, 31, 32} }

birthdayCutoff(frequency, now) ==
    IF frequency = "weekly" THEN now + FULL_DAY * 7 ELSE now + FULL_DAY * 30

\* the loop over attendeeMap, for the list of the dashboard
upcomingBirthdays(attendeeMap, frequency, now) ==
    { [id |-> attendeeMap[key].member.id, birthday |-> attendeeMap[key].member.birthday] :
        key \in { key \in DOMAIN attendeeMap :
                    /\ ~(attendeeMap[key].delete /\ attendeeMap[key].fromColl)
                    /\ attendeeMap[key].member.birthday # NoValue
                    /\ attendeeMap[key].member.birthday < birthdayCutoff(frequency, now) } }

BirthdayStep(p) ==
    /\ dpc[p] = "persist"
    /\ \E now \in Nows :
          LET frequency == dashboard.upcomingBirthdays.desiredFrequency
          IN dashboard' = [ lastUpdated |-> now,
                            upcomingBirthdays |->
                                [ frequency |-> frequency,
                                  desiredFrequency |-> frequency,
                                  members |-> upcomingBirthdays(sync[p].attendeeMap, frequency, now) ] ]
    /\ dpc' = [dpc EXCEPT ![p] = "persisted"]
    /\ UNCHANGED <<apiVars, logVars, external, sync, seedIdx, syncLock, eventTypes, eventColl,
                   audienceColl, eventsAttendedColl, limits>>

\* the members a sync has accumulated, each with any birthday, kept or deleted
BirthdayMaps ==
    UNION { [S -> { [member |-> [id |-> m, birthday |-> b], delete |-> d, fromColl |-> TRUE] :
                      m \in Mids, b \in BirthdayValues, d \in BOOLEAN }] : S \in SUBSET Mids }

InitBirthdays ==
    \E attendeeMap \in { am \in BirthdayMaps : \A key \in DOMAIN am : am[key].member.id = key },
       frequency \in Frequencies, desiredFrequency \in Frequencies :
        /\ syncLock = TRUE
        /\ eventTypes = NoFolderTypes
        /\ eventColl = {}
        /\ audienceColl = {}
        /\ eventsAttendedColl = {}
        /\ limits = FullLimits(MaxQuota)
        /\ dashboard = [ lastUpdated |-> 0,
                         upcomingBirthdays |-> [ frequency |-> frequency,
                                                 desiredFrequency |-> desiredFrequency,
                                                 members |-> {} ] ]
        /\ Stepping([Unstarted EXCEPT !.attendeeMap = attendeeMap], "persist")

NextBirthdays == \E p \in Procs : BirthdayStep(p)
SpecBirthdays == InitBirthdays /\ [][NextBirthdays]_vars

Crashed == { p \in Procs : dpc[p] = "crashed" }

\* C33: once a sync() call has crashed between taking the lock and releasing
\* it, no step clears the lock, and every call that checks the lock from
\* then on is rejected.
C33_NoLockRecovery ==
    [][ (Crashed # {} /\ syncLock) =>
            /\ syncLock'
            /\ \A p \in Procs : (dpc[p] = "check" /\ dpc'[p] # "check") => dpc'[p] = "rejected" ]_vars

\* what call p holds after the iteration of the worklist loop that gets
\* `listing` for the folder it pops
AfterExplore(p, listing) ==
    LET after == ExploreFolder(sync[p], listing)
    IN IF after.raised THEN Failed(after, "discoverEvents") ELSE after

\* call p expands a folder in this step: it pops the folder, the listing
\* succeeds with `listing`
Expands(p, listing) ==
    /\ dpc[p] = "explore"
    /\ NeedsListing(sync[p])
    /\ sync'[p] = AfterExplore(p, listing)
    /\ sync'[p] # AfterExplore(p, ListFails)

\* C34: the folder expanded is the last one pushed on the worklist that is
\* still there, it has not been expanded before in this run, and it is
\* expanded under the event type the ownership table gives it at that moment.
C34_WorklistDiscipline ==
    [][ \A p \in Procs : \A listing \in Listings :
          Expands(p, listing) =>
            LET folderId == Last(sync[p].foldersToExplore)
            IN /\ sync'[p].foldersToExplore = Front(sync[p].foldersToExplore)
                    \o SubSeq(sync'[p].foldersToExplore, Len(sync[p].foldersToExplore),
                              Len(sync'[p].foldersToExplore))
               /\ folderId \notin Range(sync[p].discoveredFolders)
               /\ NoDup(sync'[p].discoveredFolders)
               /\ sync[p].folderToEventTypeMap[folderId] # NoType ]_vars

\* the folders the ownership table of `st` maps to event type t
FoldersOwned(st, t) == { f \in Folders : st.folderToEventTypeMap[f] = t }

\* C35: during discovery the discovered-file count of every event type is the
\* number of folders the ownership table maps to it, and is never negative;
\* a transfer takes 1 from the previous owner, gives 1 to the new owner and
\* pushes the folder on the worklist.
C35_OwnershipCount ==
    [][ \A p \in Procs :
          /\ dpc'[p] \in {"seed", "explore"} =>
                \A t \in 1..Len(sync'[p].eventTypes) :
                    /\ sync'[p].totalFiles[t] = Cardinality(FoldersOwned(sync'[p], t))
                    /\ sync'[p].totalFiles[t] >= 0
          /\ \A f \in Folders :
                LET old == sync[p].folderToEventTypeMap[f]
                    new == sync'[p].folderToEventTypeMap[f]
                IN (dpc[p] \in {"seed", "explore"} /\ new # old /\ new # NoType) =>
                      /\ sync'[p].totalFiles[new] = sync[p].totalFiles[new] + 1
                      /\ old # NoType => sync'[p].totalFiles[old] = sync[p].totalFiles[old] - 1
                      /\ Len(sync'[p].foldersToExplore) >= 1
                      /\ Last(sync'[p].foldersToExplore) = f ]_vars

\* C36: whatever the declared folders and whatever Drive answers, listings
\* that fail included, the worklist of discoverEvents eventually is empty and
\* discoverEvents returns.
C36_TraversalTerminates ==
    <>(dpc[1] = "audience" /\ sync[1].foldersToExplore = <<>>)

\* C37: every stored event is linked to no event type or to an event type
\* the troupe currently defines.
C37_EventTypeIntegrity ==
    \A e \in eventColl : e.eventTypeId = NoType \/ e.eventTypeId \in TypeIdsOf(eventTypes)

\* the stored events call p read when it began
EventsRead(p) == { u \in DOMAIN sync[p].eventMap : sync[p].eventMap[u].fromColl }

\* C38: when a sync() call returns, eventsLeft plus the number of stored
\* events is what it was when the call read the troupe and its events.
C38_EventQuotaConserved ==
    [][ \A p \in Procs :
          (dpc[p] = "unlock" /\ dpc'[p] = "returned") =>
              limits'.eventsLeft + Cardinality(eventColl')
                  = sync[p].currentLimits.eventsLeft + Cardinality(EventsRead(p)) ]_vars

\* C39: no transaction of a call changes membersLeft plus the number of
\* stored members.
C39_MemberQuotaConserved ==
    [][ limits'.membersLeft + Cardinality(audienceColl')
            = limits.membersLeft + Cardinality(audienceColl) ]_vars

\* C40: after persistSync the upcoming-birthday list holds exactly the kept
\* members whose birthday is set and lies from `now` up to the end of the
\* window, 7 days when the frequency is weekly and 30 days otherwise.
C40_UpcomingBirthdays ==
    dpc[1] = "persisted" =>
        LET now == dashboard.lastUpdated
            days == IF dashboard.upcomingBirthdays.frequency = "weekly" THEN 7 ELSE 30
            kept == { key \in DOMAIN sync[1].attendeeMap : ~sync[1].attendeeMap[key].delete }
        IN { m.id : m \in dashboard.upcomingBirthdays.members }
              = { sync[1].attendeeMap[key].member.id :
                    key \in { key \in kept :
                                /\ sync[1].attendeeMap[key].member.birthday # NoValue
                                /\ sync[1].attendeeMap[key].member.birthday >= now
                                /\ sync[1].attendeeMap[key].member.birthday < now + days } }

====
